---- MODULE Spec2Model ----
(***************************************************************************)
(* A model of the octree library: the geometry kernel (geometry.py), the   *)
(* persistent tree algebra Empty / Singleton / Node (octree_inner.py), the *)
(* in-place partition helper (misc.py), the bulk builder and the mutable   *)
(* Octree facade (octrees.py).                                             *)
(*                                                                         *)
(* Coordinates are integers.  Every box the model subdivides has an even   *)
(* min+max on each axis, so the centroid (min+max)/2 of the source is the  *)
(* integer (min+max) \div 2 here.                                          *)
(***************************************************************************)
EXTENDS Integers, Sequences, FiniteSets, TLC

(***************************************************************************)
(* Bounds of the model.                                                    *)
(***************************************************************************)
MaxData == 2
MaxExtend == 2
MaxList == 3

Data == 1..MaxData

\* the default handed to get(); never a stored payload
NoData == 0

\* the bounds the facade is constructed with
Bounds0 == <<<<0, 8>>, <<0, 8>>, <<0, 8>>>>

\* in-bounds points offered to the facade: two that share octants down to
\* depth 3, one on the centroid, one sharing the top octant with it
InPoints == {<<0, 0, 0>>, <<1, 0, 0>>, <<4, 4, 4>>, <<6, 4, 6>>}

\* points outside Bounds0: on the upper bound of x, below the lower bound of z
OutPoints == {<<8, 0, 0>>, <<4, 4, -1>>}

Points == InPoints \cup OutPoints

\* the in-bounds points offered to the bulk builder and stored in the trees
\* that are rebound, in the order in which those trees are filled
PointOrder ==
    <<<<0, 0, 0>>, <<1, 0, 0>>, <<4, 4, 4>>, <<6, 4, 6>>, <<4, 4, 5>>,
      <<3, 6, 1>>>>

BuildPoints == {PointOrder[i] : i \in 1..Len(PointOrder)}

MapPoints == Points \cup BuildPoints

(***************************************************************************)
(* geometry.py                                                             *)
(***************************************************************************)
centroid(b) ==
    <<(b[1][1] + b[1][2]) \div 2, (b[2][1] + b[2][2]) \div 2,
      (b[3][1] + b[3][2]) \div 2>>

\* a point_in_box whose upper bounds are closed
point_in_box_closed(p, b) ==
    /\ b[1][1] <= p[1] /\ p[1] <= b[1][2]
    /\ b[2][1] <= p[2] /\ p[2] <= b[2][2]
    /\ b[3][1] <= p[3] /\ p[3] <= b[3][2]

point_in_box(p, b) ==
    /\ b[1][1] <= p[1] /\ p[1] < b[1][2]
    /\ b[2][1] <= p[2] /\ p[2] < b[2][2]
    /\ b[3][1] <= p[3] /\ p[3] < b[3][2]

\* "Is all of b1 in b2?"
box_contains(b1, b2) ==
    /\ b2[1][1] <= b1[1][1] /\ b1[1][2] <= b2[1][2]
    /\ b2[2][1] <= b1[2][1] /\ b1[2][2] <= b2[2][2]
    /\ b2[3][1] <= b1[3][1] /\ b1[3][2] <= b2[3][2]

boxes_disjoint(b1, b2) ==
    \/ b2[1][2] <= b1[1][1] \/ b1[1][2] <= b2[1][1]
    \/ b2[2][2] <= b1[2][1] \/ b1[2][2] <= b2[2][1]
    \/ b2[3][2] <= b1[3][1] \/ b1[3][2] <= b2[3][1]

\* the eight boxes, x in the outer loop and z in the inner one
subboxes(bounds) ==
    LET mid == centroid(bounds)
        half(axis, hi) == IF hi = 0 THEN <<bounds[axis][1], mid[axis]>>
                                    ELSE <<mid[axis], bounds[axis][2]>>
    IN  [k \in 1..8 |-> <<half(1, (k - 1) \div 4),
                          half(2, ((k - 1) \div 2) % 2),
                          half(3, (k - 1) % 2)>>]

\* a narrow that counts x as the lowest bit of n and z as the highest
narrow_z_first(bounds, coords) ==
    LET mid == centroid(bounds)
        hi(axis) == IF coords[axis] < mid[axis] THEN 0 ELSE 1
        new(axis) == IF coords[axis] < mid[axis]
                     THEN <<bounds[axis][1], mid[axis]>>
                     ELSE <<mid[axis], bounds[axis][2]>>
    IN  <<hi(1) + 2 * hi(2) + 4 * hi(3), <<new(1), new(2), new(3)>>>>

\* (n, newbounds): n is 0-based as in the source
narrow(bounds, coords) ==
    LET mid == centroid(bounds)
        hi(axis) == IF coords[axis] < mid[axis] THEN 0 ELSE 1
        new(axis) == IF coords[axis] < mid[axis]
                     THEN <<bounds[axis][1], mid[axis]>>
                     ELSE <<mid[axis], bounds[axis][2]>>
    IN  <<4 * hi(1) + 2 * hi(2) + hi(3), <<new(1), new(2), new(3)>>>>

(***************************************************************************)
(* octree_inner.py: the three variants.  A raised KeyError is the value    *)
(* Raise(kind); a method that receives one from a call it makes returns it *)
(* unchanged, as an exception propagates.                                  *)
(***************************************************************************)
Empty == [tag |-> "Empty", coords |-> <<>>, data |-> NoData, content |-> <<>>]

Singleton(coords, data) ==
    [tag |-> "Singleton", coords |-> coords, data |-> data, content |-> <<>>]

\* Node.__init__ with a sequence of eight trees
Node(content) ==
    [tag |-> "Node", coords |-> <<>>, data |-> NoData, content |-> content]

\* Node.__init__ with content=None
EmptyNode == Node([k \in 1..8 |-> Empty])

Raise(kind) ==
    [tag |-> kind, coords |-> <<>>, data |-> NoData, content |-> <<>>]

IsRaise(t) == t.tag \in {"DuplicateKey", "MissingKey", "OutOfBounds"}

\* a smartnode that never collapses
smartnode_never_collapse(data) == Node(data)

RECURSIVE smartnode_scan(_, _, _)
smartnode_scan(data, i, singleton) ==
    IF i > 8 THEN (IF singleton # Empty THEN singleton ELSE Empty)
    ELSE IF data[i].tag = "Node" THEN Node(data)
    ELSE IF data[i].tag = "Singleton"
         THEN (IF singleton # Empty THEN Node(data)
               ELSE smartnode_scan(data, i + 1, data[i]))
    ELSE smartnode_scan(data, i + 1, singleton)

smartnode(data) == smartnode_scan(data, 1, Empty)

RECURSIVE Tree_len(_)
Tree_len(t) ==
    IF t.tag = "Empty" THEN 0
    ELSE IF t.tag = "Singleton" THEN 1
    ELSE Tree_len(t.content[1]) + Tree_len(t.content[2])
         + Tree_len(t.content[3]) + Tree_len(t.content[4])
         + Tree_len(t.content[5]) + Tree_len(t.content[6])
         + Tree_len(t.content[7]) + Tree_len(t.content[8])

RECURSIVE Tree_iter(_)
Tree_iter(t) ==
    IF t.tag = "Empty" THEN <<>>
    ELSE IF t.tag = "Singleton" THEN <<<<t.coords, t.data>>>>
    ELSE Tree_iter(t.content[1]) \o Tree_iter(t.content[2])
         \o Tree_iter(t.content[3]) \o Tree_iter(t.content[4])
         \o Tree_iter(t.content[5]) \o Tree_iter(t.content[6])
         \o Tree_iter(t.content[7]) \o Tree_iter(t.content[8])

RECURSIVE Tree_get(_, _, _, _)
Tree_get(t, bounds, coords, default) ==
    IF t.tag = "Empty" THEN default
    ELSE IF t.tag = "Singleton"
         THEN (IF t.coords = coords THEN t.data ELSE default)
    ELSE LET nb == narrow(bounds, coords)
         IN  Tree_get(t.content[nb[1] + 1], nb[2], coords, default)

RECURSIVE Tree_insert(_, _, _, _)
Node_insert(t, bounds, coords, data) ==
    LET nb == narrow(bounds, coords)
        r == Tree_insert(t.content[nb[1] + 1], nb[2], coords, data)
    IN  IF IsRaise(r) THEN r
        ELSE Node([t.content EXCEPT ![nb[1] + 1] = r])

\* a Singleton.insert that overwrites an equal coordinate, as update does
Singleton_insert_overwrite(t, bounds, coords, data) ==
    IF t.coords = coords THEN Singleton(coords, data)
    ELSE Node_insert(Node_insert(EmptyNode, bounds, t.coords, t.data),
                     bounds, coords, data)

Singleton_insert(t, bounds, coords, data) ==
    IF t.coords = coords THEN Raise("DuplicateKey")
    ELSE Node_insert(Node_insert(EmptyNode, bounds, t.coords, t.data),
                     bounds, coords, data)

Empty_insert(t, bounds, coords, data) == Singleton(coords, data)

Tree_insert(t, bounds, coords, data) ==
    IF t.tag = "Empty" THEN Empty_insert(t, bounds, coords, data)
    ELSE IF t.tag = "Singleton" THEN Singleton_insert(t, bounds, coords, data)
    ELSE Node_insert(t, bounds, coords, data)

RECURSIVE Tree_update(_, _, _, _, _)
Node_update(t, bounds, coords, data, replace) ==
    LET nb == narrow(bounds, coords)
        r == Tree_update(t.content[nb[1] + 1], nb[2], coords, data, replace)
    IN  Node([t.content EXCEPT ![nb[1] + 1] = r])

\* a Singleton.update that keeps the stored payload whatever replace says
Singleton_update_keep(t, bounds, coords, data, replace) ==
    IF t.coords = coords THEN t
    ELSE Node_insert(Node_insert(EmptyNode, bounds, t.coords, t.data),
                     bounds, coords, data)

Singleton_update(t, bounds, coords, data, replace) ==
    IF t.coords = coords
    THEN (IF replace THEN Singleton(coords, data) ELSE t)
    ELSE Node_insert(Node_insert(EmptyNode, bounds, t.coords, t.data),
                     bounds, coords, data)

Empty_update(t, bounds, coords, data, replace) == Singleton(coords, data)

Tree_update(t, bounds, coords, data, replace) ==
    IF t.tag = "Empty" THEN Empty_update(t, bounds, coords, data, replace)
    ELSE IF t.tag = "Singleton"
         THEN Singleton_update(t, bounds, coords, data, replace)
    ELSE Node_update(t, bounds, coords, data, replace)

RECURSIVE Tree_remove(_, _, _)
\* a Node.remove that wraps the octants in a plain Node
Node_remove_plain(t, bounds, coords) ==
    LET nb == narrow(bounds, coords)
        r == Tree_remove(t.content[nb[1] + 1], nb[2], coords)
    IN  IF IsRaise(r) THEN r
        ELSE Node([t.content EXCEPT ![nb[1] + 1] = r])

Node_remove(t, bounds, coords) ==
    LET nb == narrow(bounds, coords)
        r == Tree_remove(t.content[nb[1] + 1], nb[2], coords)
    IN  IF IsRaise(r) THEN r
        ELSE smartnode([t.content EXCEPT ![nb[1] + 1] = r])

\* a Singleton.remove that does not compare the coordinates
Singleton_remove_any(t, bounds, coords) == Empty

Singleton_remove(t, bounds, coords) ==
    IF t.coords = coords THEN Empty ELSE Raise("MissingKey")

Empty_remove(t, bounds, coords) == Raise("MissingKey")

Tree_remove(t, bounds, coords) ==
    IF t.tag = "Empty" THEN Empty_remove(t, bounds, coords)
    ELSE IF t.tag = "Singleton" THEN Singleton_remove(t, bounds, coords)
    ELSE Node_remove(t, bounds, coords)

RECURSIVE Tree_union(_, _, _, _)
\* an Empty.union that returns the empty tree itself
Empty_union_self(t, other, bounds, swapped) == t

Empty_union(t, other, bounds, swapped) == other

Singleton_union(t, other, bounds, swapped) ==
    Tree_update(other, bounds, t.coords, t.data, swapped)

\* a Node.union that hands swapped on as it is when it changes sides
Node_union_unswapped(t, other, bounds, swapped) ==
    IF other.tag # "Node" THEN Tree_union(other, t, bounds, swapped)
    ELSE IF swapped THEN Tree_union(other, t, bounds, FALSE)
    ELSE Node([k \in 1..8 |->
                  Tree_union(t.content[k], other.content[k],
                             subboxes(bounds)[k], FALSE)])

Node_union(t, other, bounds, swapped) ==
    IF other.tag # "Node" THEN Tree_union(other, t, bounds, ~swapped)
    ELSE IF swapped THEN Tree_union(other, t, bounds, FALSE)
    ELSE Node([k \in 1..8 |->
                  Tree_union(t.content[k], other.content[k],
                             subboxes(bounds)[k], FALSE)])

Tree_union(t, other, bounds, swapped) ==
    IF t.tag = "Empty" THEN Empty_union(t, other, bounds, swapped)
    ELSE IF t.tag = "Singleton" THEN Singleton_union(t, other, bounds, swapped)
    ELSE Node_union(t, other, bounds, swapped)

\* a fold that returns the last of the parts, the others forgotten
reduce_union_last(acc, ts, k, newbounds) == ts[Len(ts)]

\* reduce(lambda x, y: x.union(y, newbounds), ts) from element k on, with acc
\* the value folded so far
RECURSIVE reduce_union(_, _, _, _)
reduce_union(acc, ts, k, newbounds) ==
    IF k > Len(ts) THEN acc
    ELSE reduce_union(Tree_union(acc, ts[k], newbounds, FALSE), ts, k + 1,
                      newbounds)

RECURSIVE Tree_rebound(_, _, _)
Empty_rebound(t, oldbounds, newbounds) == t

\* a Node.rebound whose overlapping case unites the eight parts as trees
\* over the old box
RECURSIVE Node_rebound_oldbox(_, _, _)
Node_rebound_oldbox(t, oldbounds, newbounds) ==
    IF box_contains(oldbounds, newbounds)
    THEN Node([k \in 1..8 |->
                  Node_rebound_oldbox(t, oldbounds, subboxes(newbounds)[k])])
    ELSE IF boxes_disjoint(oldbounds, newbounds) THEN Empty
    ELSE LET ts == [k \in 1..8 |->
                       IF t.content[k].tag = "Node"
                       THEN Node_rebound_oldbox(t.content[k],
                                subboxes(oldbounds)[k], newbounds)
                       ELSE IF t.content[k].tag = "Singleton"
                       THEN IF point_in_box(t.content[k].coords, newbounds)
                            THEN t.content[k] ELSE Empty
                       ELSE Empty]
         IN  reduce_union(ts[1], ts, 2, oldbounds)

\* a Singleton.rebound that keeps its point wherever it lies
Singleton_rebound_keep(t, oldbounds, newbounds) == t

Singleton_rebound(t, oldbounds, newbounds) ==
    IF point_in_box(t.coords, newbounds) THEN t ELSE Empty

\* a choice of branch that takes the first one only for a strictly larger
\* new box
Node_rebound_branch_strict(oldbounds, newbounds) ==
    IF box_contains(oldbounds, newbounds) /\ oldbounds # newbounds
    THEN "subboxes"
    ELSE IF boxes_disjoint(oldbounds, newbounds) THEN "empty"
    ELSE "union"

\* the branch of Node.rebound that the two tests of its if statement choose
Node_rebound_branch(oldbounds, newbounds) ==
    IF box_contains(oldbounds, newbounds) THEN "subboxes"
    ELSE IF boxes_disjoint(oldbounds, newbounds) THEN "empty"
    ELSE "union"

RECURSIVE Node_rebound(_, _, _)
Node_rebound(t, oldbounds, newbounds) ==
    LET branch == Node_rebound_branch(oldbounds, newbounds)
    IN  IF branch = "subboxes"
        THEN Node([k \in 1..8 |->
                      Node_rebound(t, oldbounds, subboxes(newbounds)[k])])
        ELSE IF branch = "empty" THEN Empty
        ELSE LET ts == [k \in 1..8 |->
                           Tree_rebound(t.content[k], subboxes(oldbounds)[k],
                                        newbounds)]
             IN  reduce_union(ts[1], ts, 2, newbounds)

Tree_rebound(t, oldbounds, newbounds) ==
    IF t.tag = "Empty" THEN Empty_rebound(t, oldbounds, newbounds)
    ELSE IF t.tag = "Singleton" THEN Singleton_rebound(t, oldbounds, newbounds)
    ELSE Node_rebound(t, oldbounds, newbounds)

(***************************************************************************)
(* misc.py and the bulk builder.  A list is a sequence of <<coords,        *)
(* payload>> items; start and stop are the 0-based indices of the source,  *)
(* so l[i] of the source is l[i + 1] here.  The predicate handed to pivot  *)
(* is always "coordinate axis of the item is below mid", given here by     *)
(* axis and mid.  pivot and octree_from_list_inner return the list as they *)
(* leave it next to their result, the list being modified in place.        *)
(***************************************************************************)
Swap(l, i, j) == [l EXCEPT ![i] = l[j], ![j] = l[i]]

RECURSIVE pivot_stable(_, _, _, _, _)
\* a pivot that never swaps: it stops at the first pair out of place
pivot_stable(l, axis, mid, start, stop) ==
    IF start < stop
    THEN IF l[start + 1][1][axis] < mid
         THEN pivot_stable(l, axis, mid, start + 1, stop)
         ELSE IF ~(l[stop][1][axis] < mid)
              THEN pivot_stable(l, axis, mid, start, stop - 1)
              ELSE pivot_stable(l, axis, mid, start + 1, stop - 1)
    ELSE [l |-> l, n |-> stop]

RECURSIVE pivot(_, _, _, _, _)
pivot(l, axis, mid, start, stop) ==
    IF start < stop
    THEN IF l[start + 1][1][axis] < mid
         THEN pivot(l, axis, mid, start + 1, stop)
         ELSE IF ~(l[stop][1][axis] < mid)
              THEN pivot(l, axis, mid, start, stop - 1)
              ELSE pivot(Swap(l, start + 1, stop), axis, mid,
                         start + 1, stop - 1)
    ELSE [l |-> l, n |-> stop]

RECURSIVE octree_from_list_inner(_, _, _, _)
RECURSIVE from_list_children(_, _, _, _, _, _)
\* the list comprehension of octree_from_list_inner from octant k on: the
\* recursive calls are made in octant order on the one list object
from_list_children(boxes, l, starts, stops, k, acc) ==
    IF k > 8 THEN [content |-> acc, l |-> l]
    ELSE LET r == octree_from_list_inner(boxes[k], l, starts[k], stops[k])
         IN  from_list_children(boxes, r.l, starts, stops, k + 1,
                                Append(acc, r.tree))

octree_from_list_inner(b, l, start, stop) ==
    IF start = stop THEN [tree |-> Empty, l |-> l]
    ELSE IF start + 1 = stop
         THEN [tree |-> Singleton(l[start + 1][1], l[start + 1][2]), l |-> l]
    ELSE LET mid == centroid(b)
             r4 == pivot(l, 1, mid[1], start, stop)
             r2 == pivot(r4.l, 2, mid[2], start, r4.n)
             r6 == pivot(r2.l, 2, mid[2], r4.n, stop)
             r1 == pivot(r6.l, 3, mid[3], start, r2.n)
             r3 == pivot(r1.l, 3, mid[3], r2.n, r4.n)
             r5 == pivot(r3.l, 3, mid[3], r4.n, r6.n)
             r7 == pivot(r5.l, 3, mid[3], r6.n, stop)
             c == from_list_children(
                      subboxes(b), r7.l,
                      <<start, r1.n, r2.n, r3.n, r4.n, r5.n, r6.n, r7.n>>,
                      <<r1.n, r2.n, r3.n, r4.n, r5.n, r6.n, r7.n, stop>>,
                      1, <<>>)
         IN  [tree |-> Node(c.content), l |-> c.l]

(***************************************************************************)
(* geometry.py distances and the best-first scorer.  A distance is carried *)
(* as its square: sqrt is strictly increasing and exact enough on the      *)
(* small integers met here, so two distances compare as their squares do,  *)
(* and a bound epsilon >= 0 is carried as its square as well.  The score   *)
(* -d of the furthest-first query is carried as minus the square.  A       *)
(* callback result is <<s>> for the score s and None for None.             *)
(***************************************************************************)
None == <<>>

bounding(x, e) == IF x > e THEN None ELSE <<x>>

euclidean_point_point(p, q) ==
    (p[1] - q[1]) * (p[1] - q[1]) + (p[2] - q[2]) * (p[2] - q[2])
        + (p[3] - q[3]) * (p[3] - q[3])

nearest_point_in_box(p, b) ==
    [i \in 1..3 |-> IF p[i] < b[i][1] THEN b[i][1]
                    ELSE IF p[i] < b[i][2] THEN p[i]
                    ELSE b[i][2]]

euclidean_point_box(p, b) ==
    euclidean_point_point(p, nearest_point_in_box(p, b))

furthest_point_in_box(p, b) ==
    [i \in 1..3 |-> IF 2 * p[i] > b[i][1] + b[i][2] THEN b[i][1]
                    ELSE b[i][2]]

euclidean_point_box_max(p, b) ==
    euclidean_point_point(p, furthest_point_in_box(p, b))

vertices(b) ==
    {<<x, y, z>> : x \in {b[1][1], b[1][2]}, y \in {b[2][1], b[2][2]},
                   z \in {b[3][1], b[3][2]}}

SetMax(S) == CHOOSE x \in S : \A y \in S : x >= y

\* a min that takes the largest element
SetMin_largest(S) == SetMax(S)

SetMin(S) == CHOOSE x \in S : \A y \in S : x <= y

\* The two callbacks handed to by_score, as a record cb of the query kind,
\* the query point p and the bound epsilon: "distance" and "distance_rev"
\* are the lambdas of by_distance_from_point and by_distance_from_point_rev,
\* "near" the two inner functions of near_point, "bounded" the distance
\* callbacks clamped by geometry.bounding, "linear" the x coordinate of a
\* point and the lower x face of a box, "furthest" the distance of a point
\* with, for a box, the distance of its furthest corner, which is no lower
\* bound of the scores of the points in the box.
near_pointscore(cb, q) ==
    LET s == euclidean_point_point(cb.p, q)
    IN  IF s < cb.epsilon THEN <<s>> ELSE None

near_boxscore(cb, b) ==
    LET s == euclidean_point_box(cb.p, b)
    IN  IF s < cb.epsilon THEN <<s>> ELSE None

pointscore(cb, q) ==
    IF cb.kind = "distance" THEN <<euclidean_point_point(cb.p, q)>>
    ELSE IF cb.kind = "distance_rev" THEN <<-euclidean_point_point(cb.p, q)>>
    ELSE IF cb.kind = "near" THEN near_pointscore(cb, q)
    ELSE IF cb.kind = "bounded"
    THEN bounding(euclidean_point_point(cb.p, q), cb.epsilon)
    ELSE IF cb.kind = "furthest" THEN <<euclidean_point_point(cb.p, q)>>
    ELSE <<q[1]>>

boxscore(cb, b) ==
    IF cb.kind = "distance" THEN <<euclidean_point_box(cb.p, b)>>
    ELSE IF cb.kind = "distance_rev"
    THEN <<SetMin({-euclidean_point_point(cb.p, q) : q \in vertices(b)})>>
    ELSE IF cb.kind = "near" THEN near_boxscore(cb, b)
    ELSE IF cb.kind = "bounded"
    THEN bounding(euclidean_point_box(cb.p, b), cb.epsilon)
    ELSE IF cb.kind = "furthest" THEN <<euclidean_point_box_max(cb.p, b)>>
    ELSE <<b[1][1]>>

\* A heap entry is the tuple (score, isnode, location, stuff) as a record.
\* Python orders such tuples item by item: by score, then False before
\* True, then by location (coordinates, or a box as nested pairs).  No two
\* entries of one heap agree on all three, so stuff is never compared.
HeapEntry(score, isnode, location, stuff) ==
    [score |-> score, isnode |-> isnode, location |-> location,
     stuff |-> stuff]

FlatLocation(e) ==
    IF e.isnode
    THEN <<e.location[1][1], e.location[1][2], e.location[2][1],
           e.location[2][2], e.location[3][1], e.location[3][2]>>
    ELSE e.location

\* s < t for two tuples of numbers of one length, item by item
seq_lt(s, t) ==
    \E i \in 1..Len(s) :
        /\ s[i] < t[i]
        /\ \A j \in 1..(i - 1) : s[j] = t[j]

tuple_lt(a, b) ==
    \/ a.score < b.score
    \/ /\ a.score = b.score
       /\ \/ ~a.isnode /\ b.isnode
          \/ /\ a.isnode = b.isnode
             /\ seq_lt(FlatLocation(a), FlatLocation(b))

\* heapq, by its contract: the heap is kept as the sequence of its entries
\* in increasing order, heappop takes the smallest
insort(h, e) ==
    LET k == Cardinality({i \in 1..Len(h) : tuple_lt(h[i], e)})
    IN  SubSeq(h, 1, k) \o <<e>> \o SubSeq(h, k + 1, Len(h))

\* h ranges over the one heap, so that it is a value by the time insort
\* reads it
heappush(heap, e) == CHOOSE r \in {insort(h, e) : h \in {heap}} : TRUE

\* a heappop that takes the largest entry
heappop_last(heap) ==
    [item |-> heap[Len(heap)], heap |-> SubSeq(heap, 1, Len(heap) - 1)]

heappop(heap) == [item |-> Head(heap), heap |-> Tail(heap)]

Empty_enqueue(t, heap, bounds, cb) == heap

Singleton_enqueue(t, heap, bounds, cb) ==
    LET s == pointscore(cb, t.coords)
    IN  IF s # None
        THEN heappush(heap, HeapEntry(s[1], FALSE, t.coords, t.data))
        ELSE heap

Node_enqueue(t, heap, bounds, cb) ==
    LET s == boxscore(cb, bounds)
    IN  IF s # None
        THEN heappush(heap, HeapEntry(s[1], TRUE, bounds, t))
        ELSE heap

Tree_enqueue(t, heap, bounds, cb) ==
    IF t.tag = "Empty" THEN Empty_enqueue(t, heap, bounds, cb)
    ELSE IF t.tag = "Singleton" THEN Singleton_enqueue(t, heap, bounds, cb)
    ELSE Node_enqueue(t, heap, bounds, cb)

\* Node.children: the subboxes zipped with the content
children(t, bounds) == [k \in 1..8 |-> <<subboxes(bounds)[k], t.content[k]>>]

RECURSIVE enqueue_children_seven(_, _, _, _)
\* a loop over the children that stops before the eighth
enqueue_children_seven(ch, k, heap, cb) ==
    IF k > 7 THEN heap
    ELSE enqueue_children_seven(ch, k + 1,
                                Tree_enqueue(ch[k][2], heap, ch[k][1], cb), cb)

RECURSIVE enqueue_children(_, _, _, _)
\* the for loop of by_score over the children k..8 of a popped Node
enqueue_children(ch, k, heap, cb) ==
    IF k > 8 THEN heap
    ELSE enqueue_children(ch, k + 1,
                          Tree_enqueue(ch[k][2], heap, ch[k][1], cb), cb)

\* by_score up to its while loop
by_score_begin(t, bounds, cb) == Tree_enqueue(t, <<>>, bounds, cb)

\* a turn that runs the for loop over the children of a popped Node twice
by_score_turn_twice(l, cb) ==
    LET r == heappop(l)
        e == r.item
        ch == children(e.stuff, e.location)
    IN  IF e.isnode
        THEN [l |-> enqueue_children(ch, 1,
                                     enqueue_children(ch, 1, r.heap, cb), cb),
              yield |-> <<>>]
        ELSE [l |-> r.heap, yield |-> <<<<e.score, e.location, e.stuff>>>>]

\* one turn of the while loop of by_score: the heap it leaves and what it
\* yields, <<>> or one (score, coords, payload) triple
by_score_turn(l, cb) ==
    LET r == heappop(l)
        e == r.item
    IN  IF e.isnode
        THEN [l |-> enqueue_children(children(e.stuff, e.location), 1,
                                     r.heap, cb),
              yield |-> <<>>]
        ELSE [l |-> r.heap, yield |-> <<<<e.score, e.location, e.stuff>>>>]

RECURSIVE by_score_loop(_, _, _)
\* the while loop of by_score run until the heap is empty: the list of
\* what it yields after out
by_score_loop(l, cb, out) ==
    IF Len(l) > 0
    THEN LET r == by_score_turn(l, cb)
         IN  by_score_loop(r.l, cb, out \o r.yield)
    ELSE out

\* the number of times e occurs in the list l
Occurrences(e, l) == Cardinality({i \in 1..Len(l) : l[i] = e})

\* the entries that the calls of heappush have added to the heap before to
\* make it the heap after, each with the number of times it was pushed
Pushes(before, after) ==
    LET new == {after[i] : i \in 1..Len(after)}
    IN  [e \in {x \in new : Occurrences(x, after) > Occurrences(x, before)}
            |-> Occurrences(e, after) - Occurrences(e, before)]

\* the entry e counted once
Once(e) == [x \in {e} |-> 1]

\* the sum of two functions from entries to counts
AddCounts(f, g) ==
    [e \in DOMAIN f \cup DOMAIN g |->
        (IF e \in DOMAIN f THEN f[e] ELSE 0)
        + (IF e \in DOMAIN g THEN g[e] ELSE 0)]

\* list(o.by_score(pointscore, boxscore))
by_score(t, bounds, cb) ==
    by_score_loop(by_score_begin(t, bounds, cb), cb, <<>>)

by_distance_from_point(t, bounds, p) ==
    by_score(t, bounds, [kind |-> "distance", p |-> p, epsilon |-> 0])

by_distance_from_point_rev(t, bounds, p) ==
    LET l == by_score(t, bounds,
                      [kind |-> "distance_rev", p |-> p, epsilon |-> 0])
    IN  [i \in 1..Len(l) |-> <<-l[i][1], l[i][2], l[i][3]>>]

near_point(t, bounds, p, epsilon) ==
    by_score(t, bounds, [kind |-> "near", p |-> p, epsilon |-> epsilon])

\* by_distance_from_point with a bound epsilon: the distance callbacks
\* clamped by geometry.bounding
by_distance_from_point_bounded(t, bounds, p, epsilon) ==
    by_score(t, bounds, [kind |-> "bounded", p |-> p, epsilon |-> epsilon])

(***************************************************************************)
(* blob_octree_inner.py.  A blob tree is a tree whose payloads are pairs   *)
(* <<extent, payload>>, made of BlobEmpty, BlobSingleton and BlobNode: the *)
(* methods inherited from Empty, Singleton and Node build their results    *)
(* with self.empty, self.singleton and self.node, which BlobTree binds to  *)
(* the three blob classes.  A BlobNode carries cached_extent, None when it *)
(* has none.  A triple is <<reference point, extent, payload>>.  The       *)
(* three-valued result of a box_fn is "True", "False" or "None".           *)
(***************************************************************************)
BlobEmpty ==
    [tag |-> "Empty", coords |-> <<>>, data |-> <<>>, content |-> <<>>,
     cached_extent |-> None]

BlobSingleton(coords, data) ==
    [tag |-> "Singleton", coords |-> coords, data |-> data,
     content |-> <<>>, cached_extent |-> None]

BlobRaise(kind) ==
    [tag |-> kind, coords |-> <<>>, data |-> <<>>, content |-> <<>>,
     cached_extent |-> None]

\* BlobSingleton.data_triple
data_triple(t) == <<t.coords, t.data[1], t.data[2]>>

\* BlobEmpty.extent, BlobSingleton.extent and BlobNode.extent
extent(t) ==
    IF t.tag = "Empty" THEN None
    ELSE IF t.tag = "Singleton" THEN t.data[1]
    ELSE t.cached_extent

\* Node.children_no_bounds: the content
children_no_bounds(t) == t.content

\* BlobNode.__init__ with a sequence of eight blob trees
BlobNode(content) ==
    LET l == {extent(content[k]) : k \in 1..8} \ {None}
        e == IF l = {} THEN None
             ELSE [i \in 1..3 |-> <<SetMin({a[i][1] : a \in l}),
                                    SetMax({a[i][2] : a \in l})>>]
    IN  [tag |-> "Node", coords |-> <<>>, data |-> <<>>,
         content |-> content, cached_extent |-> e]

\* BlobNode.__init__ with content=None
BlobEmptyNode == BlobNode([k \in 1..8 |-> BlobEmpty])

RECURSIVE Blob_smartnode_scan(_, _, _)
Blob_smartnode_scan(data, i, singleton) ==
    IF i > 8 THEN (IF singleton # BlobEmpty THEN singleton ELSE BlobEmpty)
    ELSE IF data[i].tag = "Node" THEN BlobNode(data)
    ELSE IF data[i].tag = "Singleton"
         THEN (IF singleton # BlobEmpty THEN BlobNode(data)
               ELSE Blob_smartnode_scan(data, i + 1, data[i]))
    ELSE Blob_smartnode_scan(data, i + 1, singleton)

\* Tree.smartnode on a blob tree
Blob_smartnode(data) == Blob_smartnode_scan(data, 1, BlobEmpty)

RECURSIVE BlobTree_insert(_, _, _, _)
\* Node.insert on a BlobNode
BlobNode_insert(t, bounds, coords, data) ==
    LET nb == narrow(bounds, coords)
        r == BlobTree_insert(t.content[nb[1] + 1], nb[2], coords, data)
    IN  IF IsRaise(r) THEN r
        ELSE BlobNode([t.content EXCEPT ![nb[1] + 1] = r])

\* Singleton.insert on a BlobSingleton
BlobSingleton_insert(t, bounds, coords, data) ==
    IF t.coords = coords THEN BlobRaise("DuplicateKey")
    ELSE BlobNode_insert(BlobNode_insert(BlobEmptyNode, bounds, t.coords,
                                         t.data),
                         bounds, coords, data)

\* Empty.insert on a BlobEmpty
BlobEmpty_insert(t, bounds, coords, data) == BlobSingleton(coords, data)

BlobTree_insert(t, bounds, coords, data) ==
    IF t.tag = "Empty" THEN BlobEmpty_insert(t, bounds, coords, data)
    ELSE IF t.tag = "Singleton"
    THEN BlobSingleton_insert(t, bounds, coords, data)
    ELSE BlobNode_insert(t, bounds, coords, data)

RECURSIVE BlobTree_update(_, _, _, _, _)
\* a Node.update that puts the new octant into the node it was called on,
\* whose cached extent stays what it was
BlobNode_update_stale(t, bounds, coords, data, replace) ==
    LET nb == narrow(bounds, coords)
        r == BlobTree_update(t.content[nb[1] + 1], nb[2], coords, data,
                             replace)
    IN  [t EXCEPT !.content = [t.content EXCEPT ![nb[1] + 1] = r]]

\* Node.update on a BlobNode
BlobNode_update(t, bounds, coords, data, replace) ==
    LET nb == narrow(bounds, coords)
        r == BlobTree_update(t.content[nb[1] + 1], nb[2], coords, data,
                             replace)
    IN  BlobNode([t.content EXCEPT ![nb[1] + 1] = r])

\* Singleton.update on a BlobSingleton
BlobSingleton_update(t, bounds, coords, data, replace) ==
    IF t.coords = coords
    THEN (IF replace THEN BlobSingleton(coords, data) ELSE t)
    ELSE BlobNode_insert(BlobNode_insert(BlobEmptyNode, bounds, t.coords,
                                         t.data),
                         bounds, coords, data)

\* Empty.update on a BlobEmpty
BlobEmpty_update(t, bounds, coords, data, replace) ==
    BlobSingleton(coords, data)

BlobTree_update(t, bounds, coords, data, replace) ==
    IF t.tag = "Empty" THEN BlobEmpty_update(t, bounds, coords, data, replace)
    ELSE IF t.tag = "Singleton"
    THEN BlobSingleton_update(t, bounds, coords, data, replace)
    ELSE BlobNode_update(t, bounds, coords, data, replace)

\* the triples (p, b, d) of a blob tree, in the order of its iteration
BlobTree_triples(t) ==
    LET l == Tree_iter(t)
    IN  [i \in 1..Len(l) |-> <<l[i][1], l[i][2][1], l[i][2][2]>>]

\* point_fn and box_fn of intersection_with_box and intersect_with_box
point_fn(e, b) == ~boxes_disjoint(e, b)

box_fn(e, b) ==
    IF boxes_disjoint(e, b) THEN "False"
    ELSE IF box_contains(e, b) THEN "True"
    ELSE "None"

BlobEmpty_subset_by_extent(t, b) == t

BlobSingleton_subset_by_extent(t, b) ==
    IF point_fn(extent(t), b) THEN t ELSE BlobEmpty

RECURSIVE BlobTree_subset_by_extent(_, _)
BlobNode_subset_by_extent(t, b) ==
    LET a == box_fn(extent(t), b)
    IN  IF a = "None"
        THEN Blob_smartnode([k \in 1..8 |->
                 BlobTree_subset_by_extent(children_no_bounds(t)[k], b)])
        ELSE IF a = "True" THEN t
        ELSE BlobEmpty

BlobTree_subset_by_extent(t, b) ==
    IF t.tag = "Empty" THEN BlobEmpty_subset_by_extent(t, b)
    ELSE IF t.tag = "Singleton" THEN BlobSingleton_subset_by_extent(t, b)
    ELSE BlobNode_subset_by_extent(t, b)

BlobEmpty_iter_by_extent(t, b) == <<>>

BlobSingleton_iter_by_extent(t, b) ==
    IF point_fn(extent(t), b) THEN <<data_triple(t)>> ELSE <<>>

RECURSIVE BlobTree_iter_by_extent(_, _)
BlobNode_iter_by_extent(t, b) ==
    LET a == box_fn(extent(t), b)
        c == children_no_bounds(t)
    IN  IF a = "None"
        THEN BlobTree_iter_by_extent(c[1], b)
             \o BlobTree_iter_by_extent(c[2], b)
             \o BlobTree_iter_by_extent(c[3], b)
             \o BlobTree_iter_by_extent(c[4], b)
             \o BlobTree_iter_by_extent(c[5], b)
             \o BlobTree_iter_by_extent(c[6], b)
             \o BlobTree_iter_by_extent(c[7], b)
             \o BlobTree_iter_by_extent(c[8], b)
        ELSE IF a = "True" THEN BlobTree_triples(t)
        ELSE <<>>

BlobTree_iter_by_extent(t, b) ==
    IF t.tag = "Empty" THEN BlobEmpty_iter_by_extent(t, b)
    ELSE IF t.tag = "Singleton" THEN BlobSingleton_iter_by_extent(t, b)
    ELSE BlobNode_iter_by_extent(t, b)

\* BlobTree.intersection_with_box: the sub-tree
intersection_with_box(t, b) == BlobTree_subset_by_extent(t, b)

\* BlobTree.intersect_with_box, as the list of what it yields
intersect_with_box(t, b) == BlobTree_iter_by_extent(t, b)

RECURSIVE reroot(_)
\* BlobEmpty.reroot, BlobSingleton.reroot and BlobNode.reroot
reroot(t) ==
    IF t.tag # "Node" THEN t
    ELSE LET l == children_no_bounds(t)
             s == Cardinality({k \in 1..8 : l[k].tag = "Empty"})
         IN  IF s = 7
             THEN reroot(l[CHOOSE k \in 1..8 : l[k].tag # "Empty"])
             ELSE t

BlobEmpty_possible_overlaps(t, other) == <<>>

BlobSingleton_possible_overlaps(t, other) ==
    LET l == intersect_with_box(other, extent(t))
    IN  [i \in 1..Len(l) |-> <<data_triple(t), l[i]>>]

RECURSIVE BlobTree_possible_overlaps(_, _)
BlobNode_possible_overlaps(t, other) ==
    LET o == reroot(intersection_with_box(other, extent(t)))
        c == children_no_bounds(t)
    IN  BlobTree_possible_overlaps(c[1], o)
        \o BlobTree_possible_overlaps(c[2], o)
        \o BlobTree_possible_overlaps(c[3], o)
        \o BlobTree_possible_overlaps(c[4], o)
        \o BlobTree_possible_overlaps(c[5], o)
        \o BlobTree_possible_overlaps(c[6], o)
        \o BlobTree_possible_overlaps(c[7], o)
        \o BlobTree_possible_overlaps(c[8], o)

\* the list of the pairs (t1, t2) that possible_overlaps yields
BlobTree_possible_overlaps(t, other) ==
    IF t.tag = "Empty" THEN BlobEmpty_possible_overlaps(t, other)
    ELSE IF t.tag = "Singleton" THEN BlobSingleton_possible_overlaps(t, other)
    ELSE BlobNode_possible_overlaps(t, other)

BlobEmpty_by_possible_overlap(t, other) == <<>>

BlobSingleton_by_possible_overlap(t, other) ==
    <<<<data_triple(t), intersect_with_box(other, t.data[1])>>>>

RECURSIVE BlobTree_by_possible_overlap(_, _)
\* the turn of the loop of BlobNode.by_possible_overlap for the child s
by_possible_overlap_child(s, other) ==
    LET e == extent(s)
    IN  IF e # None
        THEN BlobTree_by_possible_overlap(
                 s, reroot(intersection_with_box(other, e)))
        ELSE <<>>

BlobNode_by_possible_overlap(t, other) ==
    LET c == children_no_bounds(t)
    IN  by_possible_overlap_child(c[1], other)
        \o by_possible_overlap_child(c[2], other)
        \o by_possible_overlap_child(c[3], other)
        \o by_possible_overlap_child(c[4], other)
        \o by_possible_overlap_child(c[5], other)
        \o by_possible_overlap_child(c[6], other)
        \o by_possible_overlap_child(c[7], other)
        \o by_possible_overlap_child(c[8], other)

\* the list of the pairs (triple, list of triples) that by_possible_overlap
\* yields
BlobTree_by_possible_overlap(t, other) ==
    IF t.tag = "Empty" THEN BlobEmpty_by_possible_overlap(t, other)
    ELSE IF t.tag = "Singleton"
    THEN BlobSingleton_by_possible_overlap(t, other)
    ELSE BlobNode_by_possible_overlap(t, other)

(***************************************************************************)
(* geometry.py: lines against boxes.  The quotient x / y of two integers   *)
(* is the pair <<n, d>> with d > 0 that stands for n / d, compared by      *)
(* cross-multiplication.  A call returns "True" or "False", or            *)
(* "ValueError" when max() is handed an empty list.                        *)
(***************************************************************************)
Quotient(x, y) == IF y > 0 THEN <<x, y>> ELSE <<-x, -y>>

QuotientLeq(q, r) == q[1] * r[2] <= r[1] * q[2]

\* min and max of two quotients: the first argument when they compare equal
QuotientMin(q, r) == IF QuotientLeq(q, r) THEN q ELSE r

QuotientMax(q, r) == IF QuotientLeq(r, q) THEN q ELSE r

\* max and min of a non-empty list of quotients
ListMax(l) ==
    CHOOSE q \in {l[j] : j \in 1..Len(l)} :
        \A r \in {l[j] : j \in 1..Len(l)} : QuotientLeq(r, q)

ListMin(l) ==
    CHOOSE q \in {l[j] : j \in 1..Len(l)} :
        \A r \in {l[j] : j \in 1..Len(l)} : QuotientLeq(q, r)

PyBool(x) == IF x THEN "True" ELSE "False"

\* the for loop of line_intersects_box and of halfline_intersects_box from
\* axis i on: the value returned from inside the loop ("none" when the loop
\* runs to its end) and the two lists
RECURSIVE intersects_box_loop(_, _, _, _, _, _)
intersects_box_loop(a, v, b, i, mins, maxs) ==
    IF i > 3 THEN [ret |-> "none", mins |-> mins, maxs |-> maxs]
    ELSE LET ac == a[i]
             vc == v[i]
             ec1 == b[i][1]
             ec2 == b[i][2]
             lo == IF ec1 <= ec2 THEN ec1 ELSE ec2
             hi == IF ec1 <= ec2 THEN ec2 ELSE ec1
         IN  IF vc = 0
             THEN IF ~(lo <= ac /\ ac <= hi)
                  THEN [ret |-> "False", mins |-> mins, maxs |-> maxs]
                  ELSE intersects_box_loop(a, v, b, i + 1, mins, maxs)
             ELSE LET r == Quotient(ec1 - ac, vc)
                      s == Quotient(ec2 - ac, vc)
                  IN  intersects_box_loop(a, v, b, i + 1,
                                          Append(mins, QuotientMin(r, s)),
                                          Append(maxs, QuotientMax(r, s)))

line_intersects_box(a, v, b) ==
    LET l == intersects_box_loop(a, v, b, 1, <<>>, <<>>)
    IN  IF l.ret # "none" THEN l.ret
        ELSE IF l.mins = <<>> THEN "ValueError"
        ELSE PyBool(QuotientLeq(ListMax(l.mins), ListMin(l.maxs)))

halfline_intersects_box(a, v, b) ==
    LET l == intersects_box_loop(a, v, b, 1, <<>>, <<>>)
    IN  IF l.ret # "none" THEN l.ret
        ELSE IF l.mins = <<>> THEN "ValueError"
        ELSE PyBool(/\ QuotientLeq(ListMax(l.mins), ListMin(l.maxs))
                    /\ QuotientLeq(<<0, 1>>, ListMin(l.maxs)))

(***************************************************************************)
(* deform.  The callback point_fn is the action of a 3x3 matrix m on a     *)
(* point, and box_fn is convex_box_deform of that action; m stands for     *)
(* both callbacks in the parameters of deform.                             *)
(***************************************************************************)
matrix_action(m, p) ==
    [i \in 1..3 |-> m[i][1] * p[1] + m[i][2] * p[2] + m[i][3] * p[3]]

\* convex_box_deform(f, b) with f the action of m
convex_box_deform(m, b) ==
    LET l == {matrix_action(m, p) : p \in vertices(b)}
    IN  [i \in 1..3 |-> <<SetMin({q[i] : q \in l}), SetMax({q[i] : q \in l})>>]

RECURSIVE Tree_deform(_, _, _, _)
Empty_deform(t, oldbounds, newbounds, m) == t

Singleton_deform(t, oldbounds, newbounds, m) ==
    LET coords == matrix_action(m, t.coords)
    IN  IF point_in_box(coords, newbounds) THEN Singleton(coords, t.data)
        ELSE Empty

RECURSIVE Node_deform(_, _, _, _)
Node_deform(t, oldbounds, newbounds, m) ==
    IF box_contains(oldbounds, newbounds)
    THEN Node([k \in 1..8 |->
                  Node_deform(t, oldbounds, subboxes(newbounds)[k], m)])
    ELSE IF boxes_disjoint(convex_box_deform(m, oldbounds), newbounds)
    THEN Empty
    ELSE LET ts == [k \in 1..8 |->
                       Tree_deform(t.content[k], subboxes(oldbounds)[k],
                                   newbounds, m)]
         IN  reduce_union(ts[1], ts, 2, newbounds)

Tree_deform(t, oldbounds, newbounds, m) ==
    IF t.tag = "Empty" THEN Empty_deform(t, oldbounds, newbounds, m)
    ELSE IF t.tag = "Singleton"
         THEN Singleton_deform(t, oldbounds, newbounds, m)
    ELSE Node_deform(t, oldbounds, newbounds, m)

(***************************************************************************)
(* subset.  The two callbacks are the record cb: cb.point names the        *)
(* predicate on points, cb.box the way box_fn answers, and cb.stored is    *)
(* the set of stored coordinates that box_fn was built to know.  box_fn    *)
(* answers "True", "False" or "None".                                      *)
(***************************************************************************)
subset_point_fn(cb, coords) ==
    CASE cb.point = "all" -> TRUE
      [] cb.point = "none" -> FALSE
      [] cb.point = "sum_positive" -> coords[1] + coords[2] + coords[3] > 0
      [] cb.point = "x_below_4" -> coords[1] < 4
      [] cb.point = "y_equals_4" -> coords[2] = 4

\* "eager" answers whenever the stored points of the box allow it,
\* "only_true" and "only_false" give one of the two answers and are
\* otherwise unknown, "unknown" never answers, and "always_true" answers
\* true for every box, whatever it holds
subset_box_fn(cb, bounds) ==
    LET inside == {p \in cb.stored : point_in_box(p, bounds)}
        every == \A p \in inside : subset_point_fn(cb, p)
        no == \A p \in inside : ~subset_point_fn(cb, p)
    IN  IF cb.box = "always_true" THEN "True"
        ELSE IF every /\ cb.box \in {"eager", "only_true"} THEN "True"
        ELSE IF no /\ cb.box \in {"eager", "only_false"} THEN "False"
        ELSE "None"

RECURSIVE Tree_subset(_, _, _)
Empty_subset(t, bounds, cb) == t

Singleton_subset(t, bounds, cb) ==
    IF subset_point_fn(cb, t.coords) THEN t ELSE Empty

\* a Node.subset that wraps the eight parts in a plain Node
Node_subset_plain(t, bounds, cb) ==
    LET x == subset_box_fn(cb, bounds)
    IN  IF x = "None"
        THEN Node([k \in 1..8 |->
                      Tree_subset(t.content[k], subboxes(bounds)[k], cb)])
        ELSE IF x = "True" THEN t
        ELSE Empty

Node_subset(t, bounds, cb) ==
    LET x == subset_box_fn(cb, bounds)
    IN  IF x = "None"
        THEN smartnode([k \in 1..8 |->
                           Tree_subset(t.content[k], subboxes(bounds)[k], cb)])
        ELSE IF x = "True" THEN t
        ELSE Empty

Tree_subset(t, bounds, cb) ==
    IF t.tag = "Empty" THEN Empty_subset(t, bounds, cb)
    ELSE IF t.tag = "Singleton" THEN Singleton_subset(t, bounds, cb)
    ELSE Node_subset(t, bounds, cb)

(***************************************************************************)
(* octree_inner.py once more, with the identity of the objects: objs is    *)
(* the sequence of all tree objects ever constructed, an object is known   *)
(* by its index in it (a reference), and the content of a Node object is a *)
(* sequence of eight references.  A method returns the objects as it       *)
(* leaves them, the reference it returns, and the error it raised.         *)
(***************************************************************************)
\* a constructor call: a new object at the end of objs
construct(objs, o) ==
    [objs |-> Append(objs, o), ref |-> Len(objs) + 1, err |-> "none"]

raised(objs, kind) == [objs |-> objs, ref |-> 0, err |-> kind]

\* an existing object is returned
returned(objs, ref) == [objs |-> objs, ref |-> ref, err |-> "none"]

\* self.node(): one new Empty stands in all eight octants of the new Node
Ref_EmptyNode(objs) ==
    LET e == construct(objs, Empty)
    IN  construct(e.objs, Node(<<e.ref, e.ref, e.ref, e.ref, e.ref, e.ref,
                                 e.ref, e.ref>>))

RECURSIVE Ref_smartnode_scan(_, _, _, _)
Ref_smartnode_scan(objs, data, i, singleton) ==
    IF i > 8
    THEN (IF singleton # 0 THEN returned(objs, singleton)
          ELSE construct(objs, Empty))
    ELSE IF objs[data[i]].tag = "Node" THEN construct(objs, Node(data))
    ELSE IF objs[data[i]].tag = "Singleton"
         THEN (IF singleton # 0 THEN construct(objs, Node(data))
               ELSE Ref_smartnode_scan(objs, data, i + 1, data[i]))
    ELSE Ref_smartnode_scan(objs, data, i + 1, singleton)

Ref_smartnode(objs, data) == Ref_smartnode_scan(objs, data, 1, 0)

RECURSIVE Ref_Tree_insert(_, _, _, _, _)
\* a Node.insert without the copy a = list(self.content): the new octant is
\* written into the content of the Node itself, which is returned
Ref_Node_insert_in_place(objs, ref, bounds, coords, data) ==
    LET nb == narrow(bounds, coords)
        r == Ref_Tree_insert(objs, objs[ref].content[nb[1] + 1], nb[2],
                             coords, data)
    IN  IF r.err # "none" THEN r
        ELSE returned([r.objs EXCEPT ![ref].content[nb[1] + 1] = r.ref], ref)

Ref_Node_insert(objs, ref, bounds, coords, data) ==
    LET a == objs[ref].content
        nb == narrow(bounds, coords)
        r == Ref_Tree_insert(objs, a[nb[1] + 1], nb[2], coords, data)
    IN  IF r.err # "none" THEN r
        ELSE construct(r.objs, Node([a EXCEPT ![nb[1] + 1] = r.ref]))

Ref_Singleton_insert(objs, ref, bounds, coords, data) ==
    IF objs[ref].coords = coords THEN raised(objs, "DuplicateKey")
    ELSE LET n == Ref_EmptyNode(objs)
             r == Ref_Node_insert(n.objs, n.ref, bounds, objs[ref].coords,
                                  objs[ref].data)
         IN  Ref_Node_insert(r.objs, r.ref, bounds, coords, data)

Ref_Empty_insert(objs, ref, bounds, coords, data) ==
    construct(objs, Singleton(coords, data))

Ref_Tree_insert(objs, ref, bounds, coords, data) ==
    IF objs[ref].tag = "Empty"
    THEN Ref_Empty_insert(objs, ref, bounds, coords, data)
    ELSE IF objs[ref].tag = "Singleton"
    THEN Ref_Singleton_insert(objs, ref, bounds, coords, data)
    ELSE Ref_Node_insert(objs, ref, bounds, coords, data)

RECURSIVE Ref_Tree_update(_, _, _, _, _, _)
Ref_Node_update(objs, ref, bounds, coords, data, replace) ==
    LET a == objs[ref].content
        nb == narrow(bounds, coords)
        r == Ref_Tree_update(objs, a[nb[1] + 1], nb[2], coords, data,
                             replace)
    IN  construct(r.objs, Node([a EXCEPT ![nb[1] + 1] = r.ref]))

Ref_Singleton_update(objs, ref, bounds, coords, data, replace) ==
    IF objs[ref].coords = coords
    THEN (IF replace THEN construct(objs, Singleton(coords, data))
          ELSE returned(objs, ref))
    ELSE LET n == Ref_EmptyNode(objs)
             r == Ref_Node_insert(n.objs, n.ref, bounds, objs[ref].coords,
                                  objs[ref].data)
         IN  Ref_Node_insert(r.objs, r.ref, bounds, coords, data)

Ref_Empty_update(objs, ref, bounds, coords, data, replace) ==
    construct(objs, Singleton(coords, data))

Ref_Tree_update(objs, ref, bounds, coords, data, replace) ==
    IF objs[ref].tag = "Empty"
    THEN Ref_Empty_update(objs, ref, bounds, coords, data, replace)
    ELSE IF objs[ref].tag = "Singleton"
    THEN Ref_Singleton_update(objs, ref, bounds, coords, data, replace)
    ELSE Ref_Node_update(objs, ref, bounds, coords, data, replace)

RECURSIVE Ref_Tree_remove(_, _, _, _)
Ref_Node_remove(objs, ref, bounds, coords) ==
    LET a == objs[ref].content
        nb == narrow(bounds, coords)
        r == Ref_Tree_remove(objs, a[nb[1] + 1], nb[2], coords)
    IN  IF r.err # "none" THEN r
        ELSE Ref_smartnode(r.objs, [a EXCEPT ![nb[1] + 1] = r.ref])

Ref_Singleton_remove(objs, ref, bounds, coords) ==
    IF objs[ref].coords = coords THEN construct(objs, Empty)
    ELSE raised(objs, "MissingKey")

Ref_Empty_remove(objs, ref, bounds, coords) == raised(objs, "MissingKey")

Ref_Tree_remove(objs, ref, bounds, coords) ==
    IF objs[ref].tag = "Empty" THEN Ref_Empty_remove(objs, ref, bounds, coords)
    ELSE IF objs[ref].tag = "Singleton"
    THEN Ref_Singleton_remove(objs, ref, bounds, coords)
    ELSE Ref_Node_remove(objs, ref, bounds, coords)

RECURSIVE Deref(_, _)
\* the tree that the reference stands for, as a value
Deref(objs, ref) ==
    IF objs[ref].tag = "Node"
    THEN Node([k \in 1..8 |-> Deref(objs, objs[ref].content[k])])
    ELSE objs[ref]

RECURSIVE Reachable(_, _)
\* the references of the objects of the tree at ref
Reachable(objs, ref) ==
    IF objs[ref].tag = "Node"
    THEN {ref} \cup UNION {Reachable(objs, objs[ref].content[k]) : k \in 1..8}
    ELSE {ref}

(***************************************************************************)
(* octrees.py: the facade.  lastOp, lastP, lastItems, lastErr, prevTree    *)
(* and prevBounds record the last call and the facade as it was before it; *)
(* map is the finite map the tree is meant to represent.                   *)
(***************************************************************************)
VARIABLES bounds, tree, prevBounds, prevTree, lastOp, lastP, lastItems,
          lastErr, map

\* the bulk builder: the list it was called with, the list object as the
\* in-place partitioning leaves it, the tree it returned, whether it has run
VARIABLES buildInput, buildList, buildTree, buildDone

\* Octree.rebound: the bounds and the tree of the Octree it returned, and
\* whether it has returned one
VARIABLES rebBounds, rebTree, rebDone

facadeVars == <<bounds, tree, prevBounds, prevTree, lastOp, lastP, lastItems,
                lastErr, map>>

buildVars == <<buildInput, buildList, buildTree, buildDone>>

reboundVars == <<rebBounds, rebTree, rebDone>>

\* the Octree that a second rebound, of the returned Octree to its own
\* bounds, returned
VARIABLES againBounds, againTree, againDone

againVars == <<againBounds, againTree, againDone>>

AgainIdle ==
    /\ againBounds = Bounds0
    /\ againTree = Empty
    /\ againDone = FALSE

\* The distance queries run to exhaustion on one Octree: the query point
\* and the bound they were called with, and for each query whether it has
\* run and the list of what it yielded.  qBig is the nearest-first query
\* on the Octree rebound to the larger box qBigBounds.
VARIABLES qP, qEpsilon, qFwd, qRev, qNear, qBounded, qBig, qBigBounds

queryVars == <<qP, qEpsilon, qFwd, qRev, qNear, qBounded, qBig, qBigBounds>>

NotRun == [done |-> FALSE, l |-> <<>>]

Ran(l) == [done |-> TRUE, l |-> l]

QueryIdle ==
    /\ qP = <<0, 0, 0>>
    /\ qEpsilon = 0
    /\ qFwd = NotRun
    /\ qRev = NotRun
    /\ qNear = NotRun
    /\ qBounded = NotRun
    /\ qBig = NotRun
    /\ qBigBounds = Bounds0

\* Octree.simple_union: the bounds and the tree of the other Octree, the
\* bounds and the tree of the Octree returned, whether the call has been
\* made and the error it raised
VARIABLES otherBounds, otherTree, unionBounds, unionTree, unionDone, unionErr

unionVars == <<otherBounds, otherTree, unionBounds, unionTree, unionDone,
               unionErr>>

UnionIdle ==
    /\ otherBounds = Bounds0
    /\ otherTree = Empty
    /\ unionBounds = Bounds0
    /\ unionTree = Empty
    /\ unionDone = FALSE
    /\ unionErr = "none"

\* One run of the generator by_score: the two callbacks it was called
\* with, its heap l, the list of what it has yielded so far, and where it
\* stands: "start" before its first line, "loop" at the test of its while
\* loop, "done" once it has returned
VARIABLES scoreCb, scoreHeap, scoreYielded, scorePc

scoreVars == <<scoreCb, scoreHeap, scoreYielded, scorePc>>

ScoreIdle ==
    /\ scoreCb = [kind |-> "distance", p |-> <<0, 0, 0>>, epsilon |-> 0]
    /\ scoreHeap = <<>>
    /\ scoreYielded = <<>>
    /\ scorePc = "start"

\* A BlobOctree, the tree of another one and a query box; for each of the
\* four queries whether it has run and what it returned: the list of what
\* it yielded, or the tree of the BlobOctree it returned
VARIABLES blobBounds, blobTree, blobOther, blobBox, blobIter, blobSub,
          blobPairs, blobGroups

blobVars == <<blobBounds, blobTree, blobOther, blobBox, blobIter, blobSub,
              blobPairs, blobGroups>>

NotRunTree == [done |-> FALSE, tree |-> BlobEmpty]

RanTree(t) == [done |-> TRUE, tree |-> t]

BlobIdle ==
    /\ blobBounds = Bounds0
    /\ blobTree = BlobEmpty
    /\ blobOther = BlobEmpty
    /\ blobBox = Bounds0
    /\ blobIter = NotRun
    /\ blobSub = NotRunTree
    /\ blobPairs = NotRun
    /\ blobGroups = NotRun

\* the state of the queries and of the binary operations
laterVars == <<againVars, queryVars, unionVars, scoreVars, blobVars>>

LaterIdle == AgainIdle /\ QueryIdle /\ UnionIdle /\ ScoreIdle /\ BlobIdle

\* A BlobOctree edited call after call: its tree before the last call, and
\* the last call with the error it raised
VARIABLES blobPrev, blobLast

editVars == <<blobPrev, blobLast>>

NoCall == [op |-> "init", p |-> <<0, 0, 0>>, err |-> "none"]

EditIdle ==
    /\ blobPrev = BlobEmpty
    /\ blobLast = NoCall

\* Two facades over Bounds0 and the objects of their trees: all the tree
\* objects constructed so far, the reference each facade holds as its
\* tree, what each facade was seen to hold when it was last constructed or
\* called, the last call, and the number of calls made
VARIABLES shObjs, shRoot, shSeen, shLast, shCalls

shareVars == <<shObjs, shRoot, shSeen, shLast, shCalls>>

Facades == 1..2

\* the reference a facade holds and the tree it stands for
Seen(objs, ref) == [ref |-> ref, tree |-> Deref(objs, ref)]

\* both facades constructed with the default tree, the one Empty object
\* that the default argument of __init__ was evaluated to
ShareIdle ==
    /\ shObjs = <<Empty>>
    /\ shRoot = [f \in Facades |-> 1]
    /\ shSeen = [f \in Facades |-> Seen(<<Empty>>, 1)]
    /\ shLast = [op |-> "init", f |-> 1, p |-> <<0, 0, 0>>, err |-> "none"]
    /\ shCalls = 0

\* what a call that has not been made, and one that has, left as its result
NotCalled == [done |-> FALSE, out |-> Empty]

Called(x) == [done |-> TRUE, out |-> x]

\* One call of deform on the tree of the facade: the matrix that point_fn
\* and box_fn are built from, the new bounds, and the tree returned
VARIABLES dfFn, dfNew, dfOut

deformVars == <<dfFn, dfNew, dfOut>>

IdentityMatrix == <<<<1, 0, 0>>, <<0, 1, 0>>, <<0, 0, 1>>>>

DeformIdle ==
    /\ dfFn = IdentityMatrix
    /\ dfNew = Bounds0
    /\ dfOut = NotCalled

\* One call of subset on the tree of the facade: the two callbacks it was
\* called with, and the tree returned
VARIABLES subFn, subOut

subsetVars == <<subFn, subOut>>

SubsetIdle ==
    /\ subFn = [point |-> "all", box |-> "unknown"]
    /\ subOut = NotCalled

\* what a predicate that has not been called, and one that has, left
NotAnswered == [done |-> FALSE, out |-> "none"]

\* One call of line_intersects_box and one of halfline_intersects_box on
\* the same arguments: the point a, the direction v, the box b, and what
\* each call returned or raised
VARIABLES liA, liV, liB, liLine, liHalf

lineVars == <<liA, liV, liB, liLine, liHalf>>

LineIdle ==
    /\ liA = <<0, 0, 0>>
    /\ liV = <<0, 0, 0>>
    /\ liB = Bounds0
    /\ liLine = NotAnswered
    /\ liHalf = NotAnswered

\* One call of narrow: the box b, the point p, and the pair returned
VARIABLES nrB, nrP, nrOut

narrowVars == <<nrB, nrP, nrOut>>

NarrowIdle ==
    /\ nrB = Bounds0
    /\ nrP = <<0, 0, 0>>
    /\ nrOut = NotCalled

\* the runs of the tree algebra and of the geometry kernel
kernelVars == <<deformVars, subsetVars, lineVars, narrowVars>>

KernelIdle == DeformIdle /\ SubsetIdle /\ LineIdle /\ NarrowIdle

\* The run of by_score once more: how many times each heap entry has been
\* pushed, and how many times popped, since the generator was entered; a
\* function from the entries to the counts
VARIABLES scorePushed, scorePopped

scoreLogVars == <<scorePushed, scorePopped>>

ScoreLogIdle ==
    /\ scorePushed = <<>>
    /\ scorePopped = <<>>

moreVars == <<editVars, shareVars, kernelVars, scoreLogVars>>

MoreIdle == EditIdle /\ ShareIdle /\ KernelIdle /\ ScoreLogIdle

vars == <<facadeVars, buildVars, reboundVars, laterVars, moreVars>>

\* Octree.check_bounds
check_bounds(p, b) ==
    IF point_in_box(p, b) THEN "none" ELSE "OutOfBounds"

ErrOf(r) == IF IsRaise(r) THEN r.tag ELSE "none"

\* an assignment that is made whether or not the call raised
Publish_always(old, r) == r

\* the assignment self.tree = <call>: not reached when the call raises
Publish(old, r) == IF IsRaise(r) THEN old ELSE r

Init ==
    /\ bounds = Bounds0
    /\ tree = Empty
    /\ prevBounds = Bounds0
    /\ prevTree = Empty
    /\ lastOp = "init"
    /\ lastP = <<0, 0, 0>>
    /\ lastItems = <<>>
    /\ lastErr = "none"
    /\ map = [p \in MapPoints |-> NoData]
    /\ buildInput = <<>>
    /\ buildList = <<>>
    /\ buildTree = Empty
    /\ buildDone = FALSE
    /\ rebBounds = Bounds0
    /\ rebTree = Empty
    /\ rebDone = FALSE
    /\ LaterIdle
    /\ MoreIdle

Octree_insert(p, d) ==
    LET r == IF check_bounds(p, bounds) # "none" THEN Raise("OutOfBounds")
             ELSE Tree_insert(tree, bounds, p, d)
    IN  /\ tree' = Publish(tree, r)
        /\ lastErr' = ErrOf(r)
        /\ map' = IF IsRaise(r) THEN map ELSE [map EXCEPT ![p] = d]
        /\ lastOp' = "insert"
        /\ lastP' = p
        /\ lastItems' = <<>>
        /\ prevTree' = tree
        /\ prevBounds' = bounds
        /\ UNCHANGED <<bounds, buildVars, reboundVars, laterVars, moreVars>>

Octree_update(p, d) ==
    LET r == IF check_bounds(p, bounds) # "none" THEN Raise("OutOfBounds")
             ELSE Tree_update(tree, bounds, p, d, TRUE)
    IN  /\ tree' = Publish(tree, r)
        /\ lastErr' = ErrOf(r)
        /\ map' = IF IsRaise(r) THEN map ELSE [map EXCEPT ![p] = d]
        /\ lastOp' = "update"
        /\ lastP' = p
        /\ lastItems' = <<>>
        /\ prevTree' = tree
        /\ prevBounds' = bounds
        /\ UNCHANGED <<bounds, buildVars, reboundVars, laterVars, moreVars>>

Octree_remove(p) ==
    LET r == IF check_bounds(p, bounds) # "none" THEN Raise("OutOfBounds")
             ELSE Tree_remove(tree, bounds, p)
    IN  /\ tree' = Publish(tree, r)
        /\ lastErr' = ErrOf(r)
        /\ map' = IF IsRaise(r) THEN map ELSE [map EXCEPT ![p] = NoData]
        /\ lastOp' = "remove"
        /\ lastP' = p
        /\ lastItems' = <<>>
        /\ prevTree' = tree
        /\ prevBounds' = bounds
        /\ UNCHANGED <<bounds, buildVars, reboundVars, laterVars, moreVars>>

\* the loop of Octree.extend from item i on: every self.insert publishes its
\* own root, and the first one that raises ends the loop
RECURSIVE extend_loop_skip(_, _, _, _, _)
\* an extend that skips the item that raised and goes on with the rest
extend_loop_skip(t, m, b, g, i) ==
    IF i > Len(g) THEN [tree |-> t, map |-> m, err |-> "none"]
    ELSE LET p == g[i][1]
             d == g[i][2]
             r == IF check_bounds(p, b) # "none" THEN Raise("OutOfBounds")
                  ELSE Tree_insert(t, b, p, d)
             rest == extend_loop_skip(Publish(t, r),
                                      IF IsRaise(r) THEN m
                                      ELSE [m EXCEPT ![p] = d], b, g, i + 1)
         IN  IF IsRaise(r) THEN [rest EXCEPT !.err = ErrOf(r)] ELSE rest

RECURSIVE extend_loop(_, _, _, _, _)
extend_loop(t, m, b, g, i) ==
    IF i > Len(g) THEN [tree |-> t, map |-> m, err |-> "none"]
    ELSE LET p == g[i][1]
             d == g[i][2]
             r == IF check_bounds(p, b) # "none" THEN Raise("OutOfBounds")
                  ELSE Tree_insert(t, b, p, d)
         IN  IF IsRaise(r) THEN [tree |-> Publish(t, r), map |-> m,
                                 err |-> ErrOf(r)]
             ELSE extend_loop(Publish(t, r), [m EXCEPT ![p] = d], b, g, i + 1)

Octree_extend(g) ==
    LET r == extend_loop(tree, map, bounds, g, 1)
    IN  /\ tree' = r.tree
        /\ lastErr' = r.err
        /\ map' = r.map
        /\ lastOp' = "extend"
        /\ lastP' = <<0, 0, 0>>
        /\ lastItems' = g
        /\ prevTree' = tree
        /\ prevBounds' = bounds
        /\ UNCHANGED <<bounds, buildVars, reboundVars, laterVars, moreVars>>

\* the item lists offered to extend: every list of at most MaxExtend items
ExtendItems == {<<p, 1>> : p \in Points}

RECURSIVE SeqsUpTo(_, _)
SeqsUpTo(S, n) ==
    IF n = 0 THEN {<<>>}
    ELSE LET shorter == SeqsUpTo(S, n - 1)
         IN  shorter \cup {Append(s, x) : s \in shorter, x \in S}

ExtendLists == SeqsUpTo(ExtendItems, MaxExtend)

Next ==
    \/ \E p \in Points, d \in Data : Octree_insert(p, d)
    \/ \E p \in Points, d \in Data : Octree_update(p, d)
    \/ \E p \in Points : Octree_remove(p)

Spec == Init /\ [][Next]_vars

\* the facade driven by extend (and remove, so that stored points can be
\* offered again)
NextExtend ==
    \/ \E g \in ExtendLists : Octree_extend(g)
    \/ \E p \in Points : Octree_remove(p)

SpecExtend == Init /\ [][NextExtend]_vars

(***************************************************************************)
(* The bulk builder applied to the whole of a list of items with pairwise  *)
(* distinct coordinates inside Bounds0, in every order.                    *)
(***************************************************************************)
BuildItems == {<<p, d>> : p \in BuildPoints, d \in Data}

DistinctCoords(l) ==
    \A i, j \in 1..Len(l) : i # j => l[i][1] # l[j][1]

BuildLists == {l \in SeqsUpTo(BuildItems, MaxList) : DistinctCoords(l)}

InitBuild ==
    /\ bounds = Bounds0
    /\ tree = Empty
    /\ prevBounds = Bounds0
    /\ prevTree = Empty
    /\ lastOp = "init"
    /\ lastP = <<0, 0, 0>>
    /\ lastItems = <<>>
    /\ lastErr = "none"
    /\ map = [p \in MapPoints |-> NoData]
    /\ buildInput \in BuildLists
    /\ buildList = buildInput
    /\ buildTree = Empty
    /\ buildDone = FALSE
    /\ rebBounds = Bounds0
    /\ rebTree = Empty
    /\ rebDone = FALSE
    /\ LaterIdle
    /\ MoreIdle

FromList ==
    /\ ~buildDone
    /\ LET r == octree_from_list_inner(bounds, buildList, 0, Len(buildList))
       IN  /\ buildTree' = r.tree
           /\ buildList' = r.l
    /\ buildDone' = TRUE
    /\ UNCHANGED <<facadeVars, buildInput, reboundVars, laterVars, moreVars>>

NextBuild == FromList

SpecBuild == InitBuild /\ [][NextBuild]_vars

(***************************************************************************)
(* Octree.rebound applied to the trees the facade builds over Bounds0.     *)
(* The facade holds the tree of a map m from BuildPoints to payloads       *)
(* (NoData: not stored), filled by insert in the order of PointOrder, and   *)
(* rebound is called on it once.                                           *)
(***************************************************************************)
\* the same bounds, boxes around them, boxes inside them, boxes that overlap
\* them in part, boxes apart from them (the first of these touches them)
ReboundBoxes ==
    {Bounds0,
     <<<<-8, 8>>, <<-8, 8>>, <<-8, 8>>>>, <<<<0, 16>>, <<0, 16>>, <<0, 16>>>>,
     <<<<-4, 12>>, <<-4, 12>>, <<-4, 12>>>>,
     <<<<0, 4>>, <<0, 4>>, <<0, 4>>>>, <<<<2, 6>>, <<2, 6>>, <<2, 6>>>>,
     <<<<0, 2>>, <<0, 8>>, <<0, 8>>>>,
     <<<<4, 12>>, <<4, 12>>, <<4, 12>>>>, <<<<-4, 4>>, <<-4, 4>>, <<-4, 4>>>>,
     <<<<1, 9>>, <<1, 9>>, <<1, 9>>>>, <<<<-6, 2>>, <<2, 10>>, <<0, 8>>>>,
     <<<<8, 16>>, <<8, 16>>, <<8, 16>>>>, <<<<-8, -4>>, <<0, 8>>, <<0, 8>>>>}

ItemsOfMap(m) ==
    LET Stored(p) == m[p] # NoData
        ps == SelectSeq(PointOrder, Stored)
    IN  [i \in 1..Len(ps) |-> <<ps[i], m[ps[i]]>>]

RECURSIVE InsertAll(_, _, _)
\* the items of l inserted one by one, first to last, into t
InsertAll(t, b, l) ==
    IF l = <<>> THEN t
    ELSE InsertAll(Tree_insert(t, b, Head(l)[1], Head(l)[2]), b, Tail(l))

TreeOfMap(m) == InsertAll(Empty, Bounds0, ItemsOfMap(m))

InitRebound ==
    /\ bounds = Bounds0
    /\ \E m \in [BuildPoints -> {NoData} \cup Data] :
          /\ tree = TreeOfMap(m)
          /\ map = [p \in MapPoints |->
                       IF p \in BuildPoints THEN m[p] ELSE NoData]
    /\ prevBounds = Bounds0
    /\ prevTree = Empty
    /\ lastOp = "init"
    /\ lastP = <<0, 0, 0>>
    /\ lastItems = <<>>
    /\ lastErr = "none"
    /\ buildInput = <<>>
    /\ buildList = <<>>
    /\ buildTree = Empty
    /\ buildDone = FALSE
    /\ rebBounds = Bounds0
    /\ rebTree = Empty
    /\ rebDone = FALSE
    /\ LaterIdle
    /\ MoreIdle

Octree_rebound(newbounds) ==
    /\ ~rebDone
    /\ rebBounds' = newbounds
    /\ rebTree' = Tree_rebound(tree, bounds, newbounds)
    /\ rebDone' = TRUE
    /\ UNCHANGED <<facadeVars, buildVars, laterVars, moreVars>>

\* Octree.rebound called on the Octree the first call returned, with that
\* Octree's own bounds as the new bounds
Octree_rebound_again ==
    /\ rebDone
    /\ ~againDone
    /\ againBounds' = rebBounds
    /\ againTree' = Tree_rebound(rebTree, rebBounds, rebBounds)
    /\ againDone' = TRUE
    /\ UNCHANGED <<moreVars, facadeVars, buildVars, reboundVars, queryVars, unionVars,
                   scoreVars, blobVars>>

NextRebound ==
    \/ \E newbounds \in ReboundBoxes : Octree_rebound(newbounds)
    \/ Octree_rebound_again

SpecRebound == InitRebound /\ [][NextRebound]_vars

(***************************************************************************)
(* The distance queries of the facade, each run to exhaustion on an Octree *)
(* over Bounds0 that holds some of the points of ScoreOrder.               *)
(***************************************************************************)
\* stored points with ties: <<4,0,0>> and <<0,4,0>> are equally far from
\* the origin, <<4,4,4>> and <<6,4,6>> equally far from <<5,4,5>>
ScoreOrder ==
    <<<<0, 0, 0>>, <<4, 0, 0>>, <<0, 4, 0>>, <<2, 6, 2>>, <<6, 4, 6>>,
      <<4, 4, 4>>>>

ScorePoints == {ScoreOrder[i] : i \in 1..Len(ScoreOrder)}

\* query points inside the bounds, on their boundary and outside them
QueryPoints ==
    {<<0, 0, 0>>, <<5, 4, 5>>, <<2, 2, 2>>, <<8, 0, 0>>, <<4, 4, -1>>}

\* squares of the bounds epsilon
Epsilons == {0, 16, 17}

\* boxes that strictly contain Bounds0
BigBoxes ==
    {<<<<-8, 8>>, <<-8, 8>>, <<-8, 8>>>>, <<<<0, 8>>, <<0, 16>>, <<0, 8>>>>,
     <<<<-4, 12>>, <<-4, 12>>, <<-4, 12>>>>}

\* the items of the points S of ScoreOrder, the i-th with payload
\* 1 + (i mod MaxData)
ScoreItems(S) ==
    LET In(p) == p \in S
        Payload(p) == 1 + ((CHOOSE i \in 1..Len(ScoreOrder) :
                               ScoreOrder[i] = p) % MaxData)
        ps == SelectSeq(ScoreOrder, In)
    IN  [i \in 1..Len(ps) |-> <<ps[i], Payload(ps[i])>>]

\* an Octree over Bounds0 with root t, on which nothing has been called
FreshOctree(t) ==
    /\ bounds = Bounds0
    /\ tree = t
    /\ map = [p \in MapPoints |->
                 IF point_in_box(p, Bounds0)
                 THEN Tree_get(t, Bounds0, p, NoData) ELSE NoData]
    /\ prevBounds = Bounds0
    /\ prevTree = Empty
    /\ lastOp = "init"
    /\ lastP = <<0, 0, 0>>
    /\ lastItems = <<>>
    /\ lastErr = "none"
    /\ buildInput = <<>>
    /\ buildList = <<>>
    /\ buildTree = Empty
    /\ buildDone = FALSE
    /\ rebBounds = Bounds0
    /\ rebTree = Empty
    /\ rebDone = FALSE

InitQueries ==
    /\ MoreIdle
    /\ \E S \in SUBSET ScorePoints :
          FreshOctree(InsertAll(Empty, Bounds0, ScoreItems(S)))
    /\ AgainIdle
    /\ qP \in QueryPoints
    /\ qEpsilon \in Epsilons
    /\ qFwd = NotRun
    /\ qRev = NotRun
    /\ qNear = NotRun
    /\ qBounded = NotRun
    /\ qBig = NotRun
    /\ qBigBounds = Bounds0
    /\ UnionIdle
    /\ ScoreIdle
    /\ BlobIdle

\* list(o.by_distance_from_point(p))
Query_by_distance_from_point ==
    /\ ~qFwd.done
    /\ qFwd' = Ran(by_distance_from_point(tree, bounds, qP))
    /\ UNCHANGED <<moreVars, facadeVars, buildVars, reboundVars, againVars, unionVars,
                   scoreVars, blobVars, qP,
                   qEpsilon, qRev, qNear, qBounded, qBig, qBigBounds>>

\* list(o.by_distance_from_point_rev(p))
Query_by_distance_from_point_rev ==
    /\ ~qRev.done
    /\ qRev' = Ran(by_distance_from_point_rev(tree, bounds, qP))
    /\ UNCHANGED <<moreVars, facadeVars, buildVars, reboundVars, againVars, unionVars,
                   scoreVars, blobVars, qP,
                   qEpsilon, qFwd, qNear, qBounded, qBig, qBigBounds>>

\* list(o.near_point(p, epsilon))
Query_near_point ==
    /\ ~qNear.done
    /\ qNear' = Ran(near_point(tree, bounds, qP, qEpsilon))
    /\ UNCHANGED <<moreVars, facadeVars, buildVars, reboundVars, againVars, unionVars,
                   scoreVars, blobVars, qP,
                   qEpsilon, qFwd, qRev, qBounded, qBig, qBigBounds>>

\* list(o.by_distance_from_point(p, epsilon))
Query_by_distance_from_point_bounded ==
    /\ ~qBounded.done
    /\ qBounded' =
           Ran(by_distance_from_point_bounded(tree, bounds, qP, qEpsilon))
    /\ UNCHANGED <<moreVars, facadeVars, buildVars, reboundVars, againVars, unionVars,
                   scoreVars, blobVars, qP,
                   qEpsilon, qFwd, qRev, qNear, qBig, qBigBounds>>

\* list(o.rebound(b).by_distance_from_point(p))
Query_embiggen(b) ==
    /\ ~qBig.done
    /\ qBigBounds' = b
    /\ qBig' = Ran(by_distance_from_point(Tree_rebound(tree, bounds, b), b,
                                          qP))
    /\ UNCHANGED <<moreVars, facadeVars, buildVars, reboundVars, againVars, unionVars,
                   scoreVars, blobVars, qP,
                   qEpsilon, qFwd, qRev, qNear, qBounded>>

NextQueries ==
    \/ Query_by_distance_from_point
    \/ Query_by_distance_from_point_rev
    \/ Query_near_point
    \/ Query_by_distance_from_point_bounded

SpecQueries == InitQueries /\ [][NextQueries]_vars

\* test_embiggen: the two queries it compares, for one bound only
InitEmbiggen == InitQueries /\ qEpsilon = 0

NextEmbiggen ==
    \/ Query_by_distance_from_point
    \/ \E b \in BigBoxes : Query_embiggen(b)

SpecEmbiggen == InitEmbiggen /\ [][NextEmbiggen]_vars

(***************************************************************************)
(* The generator by_score, advanced one step at a time by its consumer.    *)
(***************************************************************************)
Callbacks ==
    {[kind |-> k, p |-> p, epsilon |-> 0] :
        k \in {"distance", "distance_rev", "furthest"}, p \in QueryPoints}
    \cup {[kind |-> k, p |-> p, epsilon |-> e] :
             k \in {"near", "bounded"}, p \in QueryPoints, e \in Epsilons}
    \cup {[kind |-> "linear", p |-> <<0, 0, 0>>, epsilon |-> 0]}

InitScore ==
    /\ MoreIdle
    /\ \E S \in SUBSET ScorePoints :
          FreshOctree(InsertAll(Empty, Bounds0, ScoreItems(S)))
    /\ AgainIdle
    /\ QueryIdle
    /\ UnionIdle
    /\ scoreCb \in Callbacks
    /\ scoreHeap = <<>>
    /\ scoreYielded = <<>>
    /\ scorePc = "start"
    /\ BlobIdle

\* l = []; self.tree.enqueue(l, self.bounds, pointscore, boxscore)
by_score_enter ==
    /\ scorePc = "start"
    /\ \E l \in {by_score_begin(tree, bounds, scoreCb)} :
          /\ scoreHeap' = l
          /\ scorePushed' = Pushes(<<>>, l)
    /\ scorePc' = "loop"
    /\ UNCHANGED <<editVars, shareVars, kernelVars, facadeVars, buildVars,
                   reboundVars, againVars, queryVars, unionVars, blobVars,
                   scoreCb, scoreYielded, scorePopped>>

\* a turn of the while loop that pops a Node and enqueues its children
by_score_expand ==
    /\ scorePc = "loop"
    /\ Len(scoreHeap) > 0
    /\ heappop(scoreHeap).item.isnode
    /\ \E r \in {by_score_turn(scoreHeap, scoreCb)} :
          /\ scoreHeap' = r.l
          /\ scorePushed' = AddCounts(scorePushed,
                                      Pushes(heappop(scoreHeap).heap, r.l))
    /\ scorePopped' = AddCounts(scorePopped, Once(heappop(scoreHeap).item))
    /\ UNCHANGED <<editVars, shareVars, kernelVars, facadeVars, buildVars,
                   reboundVars, againVars, queryVars, unionVars, blobVars,
                   scoreCb, scoreYielded, scorePc>>

\* a turn of the while loop that pops a point and yields it
by_score_yield ==
    /\ scorePc = "loop"
    /\ Len(scoreHeap) > 0
    /\ ~heappop(scoreHeap).item.isnode
    /\ \E r \in {by_score_turn(scoreHeap, scoreCb)} :
          /\ scoreHeap' = r.l
          /\ scoreYielded' = scoreYielded \o r.yield
    /\ scorePopped' = AddCounts(scorePopped, Once(heappop(scoreHeap).item))
    /\ UNCHANGED <<editVars, shareVars, kernelVars, facadeVars, buildVars,
                   reboundVars, againVars, queryVars, unionVars, blobVars,
                   scoreCb, scorePc, scorePushed>>

\* the while loop finds the heap empty and the generator returns
by_score_return ==
    /\ scorePc = "loop"
    /\ Len(scoreHeap) = 0
    /\ scorePc' = "done"
    /\ UNCHANGED <<moreVars, facadeVars, buildVars, reboundVars, againVars, queryVars,
                   unionVars, blobVars, scoreCb, scoreHeap, scoreYielded>>

NextScore ==
    \/ by_score_enter
    \/ by_score_expand
    \/ by_score_yield
    \/ by_score_return

SpecScore == InitScore /\ [][NextScore]_vars

\* the generator driven to exhaustion: its consumer asks for the next item
\* until it returns, and no step of the generator waits for anything
SpecScoreFair == InitScore /\ [][NextScore]_vars /\ WF_vars(NextScore)

(***************************************************************************)
(* Octree.simple_union of two Octrees, the first over Bounds0 with         *)
(* payload 1 at each of its points, the other with payload MaxData.        *)
(***************************************************************************)
\* the items of the points S of PointOrder, each with payload d
UnionItems(S, d) ==
    LET In(p) == p \in S
        ps == SelectSeq(PointOrder, In)
    IN  [i \in 1..Len(ps) |-> <<ps[i], d>>]

\* bounds of the other Octree: those of the first, and a box twice as wide
OtherBoxes == {Bounds0, <<<<0, 16>>, <<0, 16>>, <<0, 16>>>>}

InitUnion ==
    /\ MoreIdle
    /\ \E S \in SUBSET BuildPoints :
          FreshOctree(InsertAll(Empty, Bounds0, UnionItems(S, 1)))
    /\ AgainIdle
    /\ QueryIdle
    /\ otherBounds \in OtherBoxes
    /\ \E S \in SUBSET BuildPoints :
          otherTree = InsertAll(Empty, otherBounds, UnionItems(S, MaxData))
    /\ unionBounds = Bounds0
    /\ unionTree = Empty
    /\ unionDone = FALSE
    /\ unionErr = "none"
    /\ ScoreIdle
    /\ BlobIdle

Octree_simple_union ==
    /\ ~unionDone
    /\ unionDone' = TRUE
    /\ IF bounds # otherBounds
       THEN /\ unionErr' = "ValueError"
            /\ UNCHANGED <<unionBounds, unionTree>>
       ELSE /\ unionErr' = "none"
            /\ unionBounds' = bounds
            /\ unionTree' = Tree_union(tree, otherTree, bounds, FALSE)
    /\ UNCHANGED <<moreVars, facadeVars, buildVars, reboundVars, againVars, queryVars,
                   scoreVars, blobVars, otherBounds, otherTree>>

NextUnion == Octree_simple_union

SpecUnion == InitUnion /\ [][NextUnion]_vars

(***************************************************************************)
(* blob_octrees.py: the queries of a BlobOctree over Bounds0 that holds    *)
(* some of the blobs of BlobOrder.                                         *)
(***************************************************************************)
\* blobs as <<reference point, extent>>: the second has an extent of no
\* width along x, the last an extent that is a single point
BlobOrder ==
    <<<<<<0, 0, 0>>, <<<<0, 2>>, <<0, 2>>, <<0, 2>>>>>>,
      <<<<4, 0, 0>>, <<<<4, 4>>, <<0, 2>>, <<0, 2>>>>>>,
      <<<<0, 4, 0>>, <<<<0, 4>>, <<0, 4>>, <<0, 4>>>>>>,
      <<<<6, 4, 6>>, <<<<5, 7>>, <<3, 5>>, <<5, 7>>>>>>,
      <<<<4, 4, 4>>, <<<<3, 5>>, <<3, 5>>, <<3, 5>>>>>>,
      <<<<2, 6, 2>>, <<<<2, 2>>, <<6, 6>>, <<2, 2>>>>>>>>

Blobs == {BlobOrder[i] : i \in 1..Len(BlobOrder)}

QueryBoxes ==
    {<<<<0, 4>>, <<0, 4>>, <<0, 4>>>>, Bounds0,
     <<<<4, 8>>, <<0, 8>>, <<0, 8>>>>, <<<<2, 6>>, <<2, 6>>, <<2, 6>>>>,
     <<<<2, 2>>, <<0, 8>>, <<0, 8>>>>, <<<<-4, 0>>, <<0, 8>>, <<0, 8>>>>}

RECURSIVE BlobInsertAll(_, _, _)
\* BlobOctree.extend: the triples of l inserted one by one into t
BlobInsertAll(t, b, l) ==
    IF l = <<>> THEN t
    ELSE BlobInsertAll(BlobTree_insert(t, b, Head(l)[1],
                                       <<Head(l)[2], Head(l)[3]>>),
                       b, Tail(l))

\* the triples of the blobs S of BlobOrder, each with payload d
BlobItems(S, d) ==
    LET In(x) == x \in S
        xs == SelectSeq(BlobOrder, In)
    IN  [i \in 1..Len(xs) |-> <<xs[i][1], xs[i][2], d>>]

BlobTreeOf(S, d) == BlobInsertAll(BlobEmpty, Bounds0, BlobItems(S, d))

InitBlobBox ==
    /\ MoreIdle
    /\ FreshOctree(Empty)
    /\ AgainIdle
    /\ QueryIdle
    /\ UnionIdle
    /\ ScoreIdle
    /\ blobBounds = Bounds0
    /\ \E S \in SUBSET Blobs : blobTree = BlobTreeOf(S, 1)
    /\ blobOther = BlobEmpty
    /\ blobBox \in QueryBoxes
    /\ blobIter = NotRun
    /\ blobSub = NotRunTree
    /\ blobPairs = NotRun
    /\ blobGroups = NotRun

\* list(o.intersect_with_box(b))
BlobOctree_intersect_with_box ==
    /\ ~blobIter.done
    /\ blobIter' = Ran(intersect_with_box(blobTree, blobBox))
    /\ UNCHANGED <<moreVars, facadeVars, buildVars, reboundVars, againVars, queryVars,
                   unionVars, scoreVars, blobBounds, blobTree, blobOther,
                   blobBox, blobSub, blobPairs, blobGroups>>

\* o.intersection_with_box(b)
BlobOctree_intersection_with_box ==
    /\ ~blobSub.done
    /\ blobSub' = RanTree(intersection_with_box(blobTree, blobBox))
    /\ UNCHANGED <<moreVars, facadeVars, buildVars, reboundVars, againVars, queryVars,
                   unionVars, scoreVars, blobBounds, blobTree, blobOther,
                   blobBox, blobIter, blobPairs, blobGroups>>

NextBlobBox ==
    \/ BlobOctree_intersect_with_box
    \/ BlobOctree_intersection_with_box

SpecBlobBox == InitBlobBox /\ [][NextBlobBox]_vars

InitOverlap ==
    /\ MoreIdle
    /\ FreshOctree(Empty)
    /\ AgainIdle
    /\ QueryIdle
    /\ UnionIdle
    /\ ScoreIdle
    /\ blobBounds = Bounds0
    /\ \E S \in SUBSET Blobs : blobTree = BlobTreeOf(S, 1)
    /\ \E S \in SUBSET Blobs : blobOther = BlobTreeOf(S, MaxData)
    /\ blobBox = Bounds0
    /\ blobIter = NotRun
    /\ blobSub = NotRunTree
    /\ blobPairs = NotRun
    /\ blobGroups = NotRun

\* list(o.possible_overlaps(other))
BlobOctree_possible_overlaps ==
    /\ ~blobPairs.done
    /\ blobPairs' = Ran(BlobTree_possible_overlaps(blobTree, blobOther))
    /\ UNCHANGED <<moreVars, facadeVars, buildVars, reboundVars, againVars, queryVars,
                   unionVars, scoreVars, blobBounds, blobTree, blobOther,
                   blobBox, blobIter, blobSub, blobGroups>>

\* list(o.by_possible_overlap(other))
BlobOctree_by_possible_overlap ==
    /\ ~blobGroups.done
    /\ blobGroups' = Ran(BlobTree_by_possible_overlap(blobTree, blobOther))
    /\ UNCHANGED <<moreVars, facadeVars, buildVars, reboundVars, againVars, queryVars,
                   unionVars, scoreVars, blobBounds, blobTree, blobOther,
                   blobBox, blobIter, blobSub, blobPairs>>

NextOverlap ==
    \/ BlobOctree_possible_overlaps
    \/ BlobOctree_by_possible_overlap

SpecOverlap == InitOverlap /\ [][NextOverlap]_vars

(***************************************************************************)
(* blob_octrees.py: a BlobOctree over Bounds0 edited by insert and update, *)
(* and replaced by the BlobOctree that intersection_with_box returns.      *)
(***************************************************************************)
\* reference points: two that share octants down to depth 3, two that
\* share the top octant, and one on the upper bound of x
EditPoints ==
    {<<0, 0, 0>>, <<1, 0, 0>>, <<4, 4, 4>>, <<6, 4, 6>>, <<8, 0, 0>>}

\* the extents offered for the blob at p: a wide one and a narrow one
EditExtents(p) ==
    {[i \in 1..3 |-> <<p[i] - 2, p[i] + 2>>],
     [i \in 1..3 |-> <<p[i], p[i] + 1>>]}

EditBoxes ==
    {<<<<0, 4>>, <<0, 4>>, <<0, 4>>>>, <<<<4, 8>>, <<0, 8>>, <<0, 8>>>>,
     <<<<2, 6>>, <<2, 6>>, <<2, 6>>>>}

notEditVars == <<shareVars, kernelVars, scoreLogVars>>

InitBlobEdit ==
    /\ FreshOctree(Empty)
    /\ LaterIdle
    /\ MoreIdle

BlobOctree_insert(p, b, d) ==
    LET r == IF check_bounds(p, blobBounds) # "none"
             THEN BlobRaise("OutOfBounds")
             ELSE BlobTree_insert(blobTree, blobBounds, p, <<b, d>>)
    IN  /\ blobTree' = Publish(blobTree, r)
        /\ blobPrev' = blobTree
        /\ blobLast' = [op |-> "insert", p |-> p, err |-> ErrOf(r)]
        /\ UNCHANGED <<facadeVars, buildVars, reboundVars, againVars,
                       queryVars, unionVars, scoreVars, blobBounds, blobOther,
                       blobBox, blobIter, blobSub, blobPairs, blobGroups,
                       notEditVars>>

BlobOctree_update(p, b, d) ==
    LET r == IF check_bounds(p, blobBounds) # "none"
             THEN BlobRaise("OutOfBounds")
             ELSE BlobTree_update(blobTree, blobBounds, p, <<b, d>>, TRUE)
    IN  /\ blobTree' = Publish(blobTree, r)
        /\ blobPrev' = blobTree
        /\ blobLast' = [op |-> "update", p |-> p, err |-> ErrOf(r)]
        /\ UNCHANGED <<facadeVars, buildVars, reboundVars, againVars,
                       queryVars, unionVars, scoreVars, blobBounds, blobOther,
                       blobBox, blobIter, blobSub, blobPairs, blobGroups,
                       notEditVars>>

\* o = o.intersection_with_box(b): the BlobOctree returned takes the place
\* of o
BlobOctree_keep_intersection(b) ==
    /\ blobTree' = intersection_with_box(blobTree, b)
    /\ blobPrev' = blobTree
    /\ blobLast' = [op |-> "intersection_with_box", p |-> <<0, 0, 0>>,
                    err |-> "none"]
    /\ UNCHANGED <<facadeVars, buildVars, reboundVars, againVars, queryVars,
                   unionVars, scoreVars, blobBounds, blobOther, blobBox,
                   blobIter, blobSub, blobPairs, blobGroups, notEditVars>>

NextBlobEdit ==
    \/ \E p \in EditPoints : \E b \in EditExtents(p) :
           BlobOctree_insert(p, b, 1)
    \/ \E p \in EditPoints : \E b \in EditExtents(p) :
           BlobOctree_update(p, b, 1)
    \/ \E b \in EditBoxes : BlobOctree_keep_intersection(b)

SpecBlobEdit == InitBlobEdit /\ [][NextBlobEdit]_vars

(***************************************************************************)
(* Two facades that share a tree: the second is a copy of the first        *)
(* (BlobOctree.copy hands the tree object of the one to the other), and    *)
(* either is then called with insert, update and remove.  The shared tree  *)
(* holds payload 1 at each of its points, the calls store payload MaxData. *)
(***************************************************************************)
MaxCalls == 3

SharePoints == {<<0, 0, 0>>, <<1, 0, 0>>, <<4, 4, 4>>}

RECURSIVE Ref_InsertAll(_, _, _, _)
\* the items of l inserted one by one, first to last, into the tree at ref
Ref_InsertAll(objs, ref, b, l) ==
    IF l = <<>> THEN returned(objs, ref)
    ELSE LET r == Ref_Tree_insert(objs, ref, b, Head(l)[1], Head(l)[2])
         IN  Ref_InsertAll(r.objs, r.ref, b, Tail(l))

InitShare ==
    /\ FreshOctree(Empty)
    /\ LaterIdle
    /\ EditIdle
    /\ KernelIdle
    /\ ScoreLogIdle
    /\ \E S \in SUBSET SharePoints :
          LET r == Ref_InsertAll(<<Empty>>, 1, Bounds0, UnionItems(S, 1))
          IN  /\ shObjs = r.objs
              /\ shRoot = [f \in Facades |-> r.ref]
              /\ shSeen = [f \in Facades |-> Seen(r.objs, r.ref)]
    /\ shLast = [op |-> "copy", f |-> 2, p |-> <<0, 0, 0>>, err |-> "none"]
    /\ shCalls = 0

\* a call of facade f has returned or raised r: the assignment to self.tree
\* is reached when it has returned
Shared_call(f, op, p, r) ==
    LET root == IF r.err = "none" THEN [shRoot EXCEPT ![f] = r.ref]
                ELSE shRoot
    IN  /\ shCalls < MaxCalls
        /\ shCalls' = shCalls + 1
        /\ shObjs' = r.objs
        /\ shRoot' = root
        /\ shSeen' = [shSeen EXCEPT ![f] = Seen(r.objs, root[f])]
        /\ shLast' = [op |-> op, f |-> f, p |-> p, err |-> r.err]
        /\ UNCHANGED <<facadeVars, buildVars, reboundVars, laterVars,
                       editVars, kernelVars, scoreLogVars>>

Shared_insert(f, p, d) ==
    Shared_call(f, "insert", p,
                IF check_bounds(p, Bounds0) # "none"
                THEN raised(shObjs, "OutOfBounds")
                ELSE Ref_Tree_insert(shObjs, shRoot[f], Bounds0, p, d))

Shared_update(f, p, d) ==
    Shared_call(f, "update", p,
                IF check_bounds(p, Bounds0) # "none"
                THEN raised(shObjs, "OutOfBounds")
                ELSE Ref_Tree_update(shObjs, shRoot[f], Bounds0, p, d, TRUE))

Shared_remove(f, p) ==
    Shared_call(f, "remove", p,
                IF check_bounds(p, Bounds0) # "none"
                THEN raised(shObjs, "OutOfBounds")
                ELSE Ref_Tree_remove(shObjs, shRoot[f], Bounds0, p))

\* facade g becomes f.copy(): a new facade with the tree object of f
Shared_copy(f, g) ==
    /\ shCalls < MaxCalls
    /\ shCalls' = shCalls + 1
    /\ shRoot' = [shRoot EXCEPT ![g] = shRoot[f]]
    /\ shSeen' = [shSeen EXCEPT ![g] = Seen(shObjs, shRoot[f])]
    /\ shLast' = [op |-> "copy", f |-> g, p |-> <<0, 0, 0>>, err |-> "none"]
    /\ UNCHANGED <<facadeVars, buildVars, reboundVars, laterVars, editVars,
                   kernelVars, scoreLogVars, shObjs>>

NextShare ==
    \/ \E f \in Facades, p \in SharePoints : Shared_insert(f, p, MaxData)
    \/ \E f \in Facades, p \in SharePoints : Shared_update(f, p, MaxData)
    \/ \E f \in Facades, p \in SharePoints : Shared_remove(f, p)
    \/ \E f \in Facades : Shared_copy(f, 3 - f)

SpecShare == InitShare /\ [][NextShare]_vars

(***************************************************************************)
(* deform called once on the tree of an Octree over Bounds0, with the      *)
(* callbacks of a matrix and a new box.                                    *)
(***************************************************************************)
\* the identity, the reflection of x, the point reflection, the exchange of
\* x and y, the scaling by 2, and the projection on the x axis
DeformMatrices ==
    {IdentityMatrix,
     <<<<-1, 0, 0>>, <<0, 1, 0>>, <<0, 0, 1>>>>,
     <<<<-1, 0, 0>>, <<0, -1, 0>>, <<0, 0, -1>>>>,
     <<<<0, 1, 0>>, <<1, 0, 0>>, <<0, 0, 1>>>>,
     <<<<2, 0, 0>>, <<0, 2, 0>>, <<0, 0, 2>>>>,
     <<<<1, 0, 0>>, <<0, 0, 0>>, <<0, 0, 0>>>>}

Cube(lo, hi) == <<<<lo, hi>>, <<lo, hi>>, <<lo, hi>>>>

DeformBoxes ==
    {Bounds0, Cube(-8, 8), Cube(0, 16), <<<<-8, 8>>, <<0, 8>>, <<0, 8>>>>,
     Cube(0, 4), Cube(-8, 0), Cube(4, 12), Cube(-4, 12)}

\* the other runs of the tree algebra and of the geometry kernel
notDeformVars == <<subsetVars, lineVars, narrowVars, scoreLogVars>>

InitDeform ==
    /\ \E S \in SUBSET ScorePoints :
          FreshOctree(InsertAll(Empty, Bounds0, ScoreItems(S)))
    /\ LaterIdle
    /\ EditIdle
    /\ ShareIdle
    /\ dfFn \in DeformMatrices
    /\ dfNew \in DeformBoxes
    /\ dfOut = NotCalled
    /\ SubsetIdle
    /\ LineIdle
    /\ NarrowIdle
    /\ ScoreLogIdle

\* tree.deform(bounds, newbounds, point_fn, box_fn) with the two callbacks
\* of the matrix dfFn
deform ==
    /\ ~dfOut.done
    /\ dfOut' = Called(Tree_deform(tree, bounds, dfNew, dfFn))
    /\ UNCHANGED <<facadeVars, buildVars, reboundVars, laterVars, editVars,
                   shareVars, notDeformVars, dfFn, dfNew>>

NextDeform == deform

SpecDeform == InitDeform /\ [][NextDeform]_vars

(***************************************************************************)
(* subset called once on the tree of an Octree over Bounds0.               *)
(***************************************************************************)
PointFns == {"all", "none", "sum_positive", "x_below_4", "y_equals_4"}

BoxFns == {"unknown", "eager", "only_true", "only_false", "always_true"}

notSubsetVars == <<deformVars, lineVars, narrowVars, scoreLogVars>>

InitSubset ==
    /\ \E S \in SUBSET ScorePoints :
          /\ FreshOctree(InsertAll(Empty, Bounds0, ScoreItems(S)))
          /\ \E pf \in PointFns, bf \in BoxFns :
                subFn = [point |-> pf, box |-> bf, stored |-> S]
    /\ LaterIdle
    /\ EditIdle
    /\ ShareIdle
    /\ DeformIdle
    /\ subOut = NotCalled
    /\ LineIdle
    /\ NarrowIdle
    /\ ScoreLogIdle

\* tree.subset(bounds, point_fn, box_fn)
subset ==
    /\ ~subOut.done
    /\ subOut' = Called(Tree_subset(tree, bounds, subFn))
    /\ UNCHANGED <<facadeVars, buildVars, reboundVars, laterVars, editVars,
                   shareVars, notSubsetVars, subFn>>

NextSubset == subset

SpecSubset == InitSubset /\ [][NextSubset]_vars

(***************************************************************************)
(* line_intersects_box and halfline_intersects_box each called once on an  *)
(* origin, a direction and a box.                                          *)
(***************************************************************************)
\* origins inside, on the faces of and outside Bounds0
LineOrigins == {<<x, y, z>> : x \in {-1, 2, 8}, y \in {0, 4}, z \in {2, 9}}

\* directions with none, some and all of their components zero
LineDirections == {<<x, y, z>> : x \in {-1, 0, 2}, y \in {-1, 0, 2},
                                 z \in {-1, 0, 2}}

\* a cube, a box of no width on y, and a box given with max before min
LineBoxes ==
    {Bounds0, <<<<0, 8>>, <<4, 4>>, <<0, 8>>>>,
     <<<<6, 2>>, <<0, 8>>, <<1, 3>>>>}

notLineVars == <<deformVars, subsetVars, narrowVars, scoreLogVars>>

InitLine ==
    /\ FreshOctree(Empty)
    /\ LaterIdle
    /\ EditIdle
    /\ ShareIdle
    /\ DeformIdle
    /\ SubsetIdle
    /\ liA \in LineOrigins
    /\ liV \in LineDirections
    /\ liB \in LineBoxes
    /\ liLine = NotAnswered
    /\ liHalf = NotAnswered
    /\ NarrowIdle
    /\ ScoreLogIdle

call_line_intersects_box ==
    /\ ~liLine.done
    /\ liLine' = [done |-> TRUE, out |-> line_intersects_box(liA, liV, liB)]
    /\ UNCHANGED <<facadeVars, buildVars, reboundVars, laterVars, editVars,
                   shareVars, notLineVars, liA, liV, liB, liHalf>>

call_halfline_intersects_box ==
    /\ ~liHalf.done
    /\ liHalf' = [done |-> TRUE,
                  out |-> halfline_intersects_box(liA, liV, liB)]
    /\ UNCHANGED <<facadeVars, buildVars, reboundVars, laterVars, editVars,
                   shareVars, notLineVars, liA, liV, liB, liLine>>

NextLine ==
    \/ call_line_intersects_box
    \/ call_halfline_intersects_box

SpecLine == InitLine /\ [][NextLine]_vars

(***************************************************************************)
(* narrow called once on a box and a point.  The boxes have min < max and  *)
(* an even min + max on each axis, so that their centroid is a point of    *)
(* integers.                                                               *)
(***************************************************************************)
NarrowBoxes ==
    {Bounds0, Cube(0, 4), Cube(-8, 8), <<<<0, 8>>, <<2, 6>>, <<-4, 4>>>>,
     <<<<4, 8>>, <<0, 2>>, <<1, 3>>>>}

NarrowCoords == {-1, 0, 1, 2, 3, 4, 6, 8}

notNarrowVars == <<deformVars, subsetVars, lineVars, scoreLogVars>>

InitNarrow ==
    /\ FreshOctree(Empty)
    /\ LaterIdle
    /\ EditIdle
    /\ ShareIdle
    /\ DeformIdle
    /\ SubsetIdle
    /\ LineIdle
    /\ nrB \in NarrowBoxes
    /\ nrP \in {<<x, y, z>> : x \in NarrowCoords, y \in NarrowCoords,
                               z \in NarrowCoords}
    /\ nrOut = NotCalled
    /\ ScoreLogIdle

call_narrow ==
    /\ ~nrOut.done
    /\ nrOut' = Called(narrow(nrB, nrP))
    /\ UNCHANGED <<facadeVars, buildVars, reboundVars, laterVars, editVars,
                   shareVars, notNarrowVars, nrB, nrP>>

NextNarrow == call_narrow

SpecNarrow == InitNarrow /\ [][NextNarrow]_vars

(***************************************************************************)
(* Vocabulary of the properties.                                           *)
(***************************************************************************)
SeqToSet(q) == {q[i] : i \in 1..Len(q)}

\* the (coords, payload) pairs and the coordinates a tree stores
Entries(t) == SeqToSet(Tree_iter(t))

StoredCoords(t) == {e[1] : e \in Entries(t)}

\* min <= c < max on each axis, written out
InHalfOpen(p, b) ==
    \A axis \in 1..3 : b[axis][1] <= p[axis] /\ p[axis] < b[axis][2]

FacadeCall == lastOp \in {"insert", "update", "remove"}

RECURSIVE NonDegenerate(_)
NonDegenerate(t) ==
    t.tag = "Node" =>
        /\ \/ Cardinality({k \in 1..8 : t.content[k].tag # "Empty"}) >= 2
           \/ \E k \in 1..8 : t.content[k].tag = "Node"
        /\ Tree_len(t) >= 2
        /\ \A k \in 1..8 : NonDegenerate(t.content[k])

\* the tree has a Node under a Node under its root Node
HasDeepChain(t) ==
    /\ t.tag = "Node"
    /\ \E k \in 1..8 :
          /\ t.content[k].tag = "Node"
          /\ \E j \in 1..8 : t.content[k].content[j].tag = "Node"

\* in-bounds coordinates, stored or never stored, and coordinates outside
ProbePoints ==
    Points \cup {<<2, 0, 0>>, <<4, 4, 5>>, <<7, 7, 7>>, <<3, 6, 1>>,
                 <<9, 9, 9>>, <<-3, 2, 2>>, <<0, 8, 0>>, <<0, 0, 8>>}

InProbes == {p \in ProbePoints : InHalfOpen(p, Bounds0)}

(***************************************************************************)
(* C1: after any sequence of facade insert, update and remove calls from   *)
(* an empty tree (raising calls included) every Node of the root tree is   *)
(* non-degenerate: it has two non-Empty children or a Node child, and so   *)
(* holds at least two points.                                              *)
(***************************************************************************)
C1_NoDegenerateNode == NonDegenerate(tree)

\* a remove has collapsed a chain of Nodes to the one Singleton left
C1_Witness ==
    /\ lastOp = "remove" /\ lastErr = "none"
    /\ HasDeepChain(prevTree)
    /\ tree.tag = "Singleton"

(***************************************************************************)
(* C2: the tree refines the finite map coords -> payload: get returns the  *)
(* payload most recently inserted or updated at p and not removed since,   *)
(* the default for every other p (also outside the bounds), and len is the *)
(* number of keys of the map.                                              *)
(***************************************************************************)
C2_GetRefinesMap ==
    /\ \A p \in ProbePoints :
          Tree_get(tree, bounds, p, NoData)
              = (IF p \in Points THEN map[p] ELSE NoData)
    /\ Tree_len(tree) = Cardinality({p \in Points : map[p] # NoData})

\* an update has replaced a payload stored three Nodes deep
C2_Witness ==
    /\ lastOp = "update" /\ lastErr = "none"
    /\ HasDeepChain(tree)
    /\ Tree_get(prevTree, bounds, lastP, NoData) # NoData
    /\ Tree_get(prevTree, bounds, lastP, NoData)
           # Tree_get(tree, bounds, lastP, NoData)
    /\ Tree_len(tree) = 4

(***************************************************************************)
(* C3: facade insert, update and remove fail with OutOfBounds exactly when *)
(* the point is outside the half-open bounds (a coordinate equal to the    *)
(* upper bound is rejected, one equal to the lower bound accepted); the    *)
(* check comes first, so no other error is reported for such a point.      *)
(***************************************************************************)
C3_OutOfBoundsExactly ==
    FacadeCall => (lastErr = "OutOfBounds" <=> ~InHalfOpen(lastP, prevBounds))

\* a remove of a point on the upper bound of x was rejected by the bounds
\* check, and not as a missing key
C3_Witness ==
    /\ lastOp = "remove"
    /\ lastP[1] = prevBounds[1][2]
    /\ lastErr = "OutOfBounds"

(***************************************************************************)
(* C4: insert of an in-bounds p fails with DuplicateKey iff p is already   *)
(* stored, at whatever depth; when it succeeds len grows by exactly one.   *)
(***************************************************************************)
C4_DuplicateKeyExactly ==
    (lastOp = "insert" /\ InHalfOpen(lastP, prevBounds)) =>
        /\ lastErr \in {"none", "DuplicateKey"}
        /\ lastErr = "DuplicateKey" <=> lastP \in StoredCoords(prevTree)
        /\ lastErr = "none" => Tree_len(tree) = Tree_len(prevTree) + 1

\* the duplicate was found three Nodes deep
C4_Witness ==
    /\ lastOp = "insert" /\ lastErr = "DuplicateKey"
    /\ prevTree.tag = "Node"
    /\ \E k, j \in 1..8 :
          /\ prevTree.content[k].tag = "Node"
          /\ prevTree.content[k].content[j].tag = "Node"
          /\ lastP \in StoredCoords(prevTree.content[k].content[j])

(***************************************************************************)
(* C5: remove of an in-bounds p fails with MissingKey iff p is not stored  *)
(* (so a second remove of the same coordinate fails); a successful remove  *)
(* lowers len by exactly one and leaves p not stored; a root that stores   *)
(* nothing is Empty.                                                       *)
(***************************************************************************)
C5_MissingKeyExactly ==
    /\ (lastOp = "remove" /\ InHalfOpen(lastP, prevBounds)) =>
          /\ lastErr \in {"none", "MissingKey"}
          /\ lastErr = "MissingKey" <=> lastP \notin StoredCoords(prevTree)
          /\ lastErr = "none" =>
                /\ Tree_len(tree) = Tree_len(prevTree) - 1
                /\ lastP \notin StoredCoords(tree)
                /\ IsRaise(Tree_remove(tree, bounds, lastP))
    /\ StoredCoords(tree) = {} => tree = Empty

\* the last stored point has been removed
C5_Witness ==
    /\ lastOp = "remove" /\ lastErr = "none"
    /\ prevTree.tag = "Singleton"
    /\ tree = Empty

(***************************************************************************)
(* C6: when a single facade insert, update or remove raises, the facade's  *)
(* bounds and root are exactly what they were before the call.             *)
(***************************************************************************)
C6_ErrorLeavesFacade ==
    (FacadeCall /\ lastErr # "none") =>
        (tree = prevTree /\ bounds = prevBounds)

\* an insert has raised DuplicateKey on a facade that holds a Node
C6_Witness ==
    /\ lastOp = "insert" /\ lastErr = "DuplicateKey"
    /\ tree.tag = "Node"

(***************************************************************************)
(* C7 as stated: when extend raises part-way through its input, the root   *)
(* holds exactly the entries it held before the call.                      *)
(***************************************************************************)
C7_ExtendErrorLeavesRoot ==
    (lastOp = "extend" /\ lastErr # "none") =>
        Entries(tree) = Entries(prevTree)

\* item k of g raises when the items before it have been inserted
FailsAt(g, k, t, b) ==
    \/ ~InHalfOpen(g[k][1], b)
    \/ g[k][1] \in StoredCoords(t)
    \/ \E j \in 1..(k - 1) : g[j][1] = g[k][1]

(***************************************************************************)
(* C7 amended: when extend raises at an item, the items before it stay     *)
(* inserted: the root holds the entries it held before the call plus       *)
(* exactly the items that precede the first failing item.                  *)
(***************************************************************************)
C7_ExtendKeepsPrefix ==
    (lastOp = "extend" /\ lastErr # "none") =>
        \E k \in 1..Len(lastItems) :
            /\ FailsAt(lastItems, k, prevTree, prevBounds)
            /\ \A j \in 1..(k - 1) :
                  ~FailsAt(lastItems, j, prevTree, prevBounds)
            /\ Entries(tree) = Entries(prevTree)
                                 \cup {lastItems[j] : j \in 1..(k - 1)}

\* extend has raised after inserting an item
C7_Witness ==
    /\ lastOp = "extend" /\ lastErr = "DuplicateKey"
    /\ Tree_len(tree) > Tree_len(prevTree)

(***************************************************************************)
(* C8: for every reachable tree t and every in-bounds p not stored in t,   *)
(* inserting p and then removing it gives a tree structurally equal to t.  *)
(***************************************************************************)
C8_InsertRemoveRestores ==
    \A p \in InProbes, d \in Data :
        p \notin StoredCoords(tree) =>
            Tree_remove(Tree_insert(tree, bounds, p, d), bounds, p) = tree

\* the facade has removed the point whose insert had built a chain of Nodes
\* over a Singleton, and is back at the Singleton
C8_Witness ==
    /\ lastOp = "remove" /\ lastErr = "none"
    /\ tree.tag = "Singleton"
    /\ HasDeepChain(prevTree)
    /\ \E d \in Data : prevTree = Tree_insert(tree, bounds, lastP, d)

(***************************************************************************)
(* C9: for every list of items with pairwise distinct coordinates inside   *)
(* the bounds, in any order, octree_from_list_inner over the whole list    *)
(* returns a tree structurally equal to the one built by inserting the     *)
(* items one by one into an empty tree with the same bounds.               *)
(***************************************************************************)
C9_BuilderEqualsInserts ==
    buildDone => buildTree = InsertAll(Empty, bounds, buildInput)

\* the builder has run on a list it had to reorder, and built Nodes three
\* deep
C9_Witness ==
    /\ buildDone
    /\ Len(buildInput) = 3
    /\ buildList # buildInput
    /\ HasDeepChain(buildTree)

(***************************************************************************)
(* The tree of the facade is the tree of its map filled by insert alone:   *)
(* update and remove reach no other shape.                                 *)
(***************************************************************************)
FacadeTreeIsTreeOfMap ==
    tree = TreeOfMap([p \in BuildPoints |-> map[p]])

(***************************************************************************)
(* C10: for every facade-built tree and every new box b (around the old    *)
(* bounds, inside them, overlapping them in part or apart from them),      *)
(* rebound(b) returns a tree that stores exactly the stored entries whose  *)
(* coordinates lie in the half-open box b, payloads unchanged, each once.  *)
(***************************************************************************)
C10_ReboundKeepsPointsInBox ==
    rebDone =>
        /\ Entries(rebTree)
               = {e \in Entries(tree) : InHalfOpen(e[1], rebBounds)}
        /\ Tree_len(rebTree) = Cardinality(Entries(rebTree))

\* a rebound to a box that overlaps the old bounds in part has dropped some
\* points and kept several
C10_Witness ==
    /\ rebDone
    /\ ~box_contains(bounds, rebBounds) /\ ~box_contains(rebBounds, bounds)
    /\ ~boxes_disjoint(bounds, rebBounds)
    /\ rebTree.tag = "Node"
    /\ Tree_len(rebTree) < Tree_len(tree)
(***************************************************************************)
(* C11: rebound is idempotent.  The Octree that rebound(b) returns, when   *)
(* rebound to b once more, comes back with the same bounds and with a      *)
(* structurally equal tree.                                                *)
(***************************************************************************)
C11_ReboundIdempotent ==
    againDone => againBounds = rebBounds /\ againTree = rebTree

\* the second rebound has run on a Node that the first one restructured,
\* having dropped a point, for a box that overlaps the old one in part
C11_Witness ==
    /\ againDone
    /\ rebTree.tag = "Node"
    /\ ~box_contains(bounds, rebBounds)
    /\ ~box_contains(rebBounds, bounds)
    /\ Tree_len(rebTree) < Tree_len(tree)
    /\ rebTree # tree

(***************************************************************************)
(* C12: rebinding an octree to a box that strictly contains its bounds     *)
(* leaves the nearest-first list of every query point unchanged, triple    *)
(* for triple and in the same order, ties included.                        *)
(***************************************************************************)
StrictlyContains(big, small) == box_contains(small, big) /\ big # small

C12_EmbiggenSameList ==
    (qFwd.done /\ qBig.done /\ StrictlyContains(qBigBounds, bounds))
        => qBig.l = qFwd.l

\* no two entries of the list l have the same distance
DistinctDistances(l) ==
    \A i, j \in 1..Len(l) : i # j => l[i][1] # l[j][1]

NonDecreasing(l) == \A i, j \in 1..Len(l) : i < j => l[i][1] <= l[j][1]

\* C12, amended: the two lists hold the same triples in non-decreasing
\* order of distance, and are the same list when no two stored points are
\* equally far from the query point
C12_EmbiggenSameUpToTies ==
    (qFwd.done /\ qBig.done /\ StrictlyContains(qBigBounds, bounds))
        => /\ SeqToSet(qBig.l) = SeqToSet(qFwd.l)
           /\ Len(qBig.l) = Len(qFwd.l)
           /\ NonDecreasing(qBig.l)
           /\ NonDecreasing(qFwd.l)
           /\ DistinctDistances(qFwd.l) => qBig.l = qFwd.l

\* both queries have run on a tree of three or more points without ties,
\* which the rebound has restructured
C12_Witness ==
    /\ qFwd.done
    /\ qBig.done
    /\ StrictlyContains(qBigBounds, bounds)
    /\ Len(qFwd.l) >= 3
    /\ DistinctDistances(qFwd.l)
    /\ Tree_rebound(tree, bounds, qBigBounds) # tree
    /\ qBig.l = qFwd.l

(***************************************************************************)
(* C13: the simple_union of two octrees with identical bounds stores       *)
(* exactly the union of their coordinates, one entry per coordinate, and   *)
(* when the two hold no coordinate in common it equals the octree built by *)
(* inserting the entries of both into one empty tree.                      *)
(***************************************************************************)
C13_UnionOfCoordinates ==
    (unionDone /\ bounds = otherBounds)
        => /\ unionErr = "none"
           /\ unionBounds = bounds
           /\ StoredCoords(unionTree)
                  = StoredCoords(tree) \cup StoredCoords(otherTree)
           /\ Tree_len(unionTree) = Cardinality(StoredCoords(unionTree))
           /\ StoredCoords(tree) \cap StoredCoords(otherTree) = {}
                  => unionTree = InsertAll(Empty, bounds,
                                    Tree_iter(tree) \o Tree_iter(otherTree))

\* the union of two Nodes has run, on trees that share one coordinate and
\* each hold one that the other lacks
C13_Witness ==
    /\ unionDone
    /\ bounds = otherBounds
    /\ tree.tag = "Node"
    /\ otherTree.tag = "Node"
    /\ StoredCoords(tree) \cap StoredCoords(otherTree) # {}
    /\ StoredCoords(tree) \ StoredCoords(otherTree) # {}
    /\ StoredCoords(otherTree) \ StoredCoords(tree) # {}

(***************************************************************************)
(* C14: when boxscore(b) is a lower bound of pointscore(p) for every       *)
(* stored point p inside b, the scores that by_score yields never          *)
(* decrease from one yield to the next.                                    *)
(***************************************************************************)
\* a of boxscore is at most b of pointscore, None standing for infinity
ScoreAtMost(a, b) == b = None \/ (a # None /\ a[1] <= b[1])

RECURSIVE LowerBound(_, _, _)
\* boxscore is a lower bound of pointscore at every Node of t
LowerBound(cb, t, b) ==
    t.tag = "Node" =>
        /\ \A q \in StoredCoords(t) :
               ScoreAtMost(boxscore(cb, b), pointscore(cb, q))
        /\ \A k \in 1..8 : LowerBound(cb, t.content[k], subboxes(b)[k])

C14_ScoresNonDecreasing ==
    LowerBound(scoreCb, tree, bounds) => NonDecreasing(scoreYielded)

\* the generator has yielded three points, two of them with one score,
\* after expanding a Node below the root, and has more to yield
C14_Witness ==
    /\ LowerBound(scoreCb, tree, bounds)
    /\ Len(scoreYielded) = 3
    /\ ~DistinctDistances(scoreYielded)
    /\ scoreYielded[1][1] < scoreYielded[3][1]
    /\ Len(scoreHeap) > 0
    /\ tree.tag = "Node"
    /\ \E k \in 1..8 : tree.content[k].tag = "Node"

(***************************************************************************)
(* C15: by_distance_from_point(p), run until it returns, has yielded every *)
(* stored entry exactly once, each with its Euclidean distance to p (here  *)
(* the square of it), whether p lies inside the bounds or outside.         *)
(***************************************************************************)
SquaredDistance(p, q) == (p[1] - q[1])^2 + (p[2] - q[2])^2 + (p[3] - q[3])^2

C15_DistanceQueryYieldsAll ==
    (scorePc = "done" /\ scoreCb.kind = "distance")
        => /\ Len(scoreYielded) = Tree_len(tree)
           /\ {<<y[2], y[3]>> : y \in SeqToSet(scoreYielded)} = Entries(tree)
           /\ {y[2] : y \in SeqToSet(scoreYielded)} = StoredCoords(tree)
           /\ \A i \in 1..Len(scoreYielded) :
                  scoreYielded[i][1]
                      = SquaredDistance(scoreCb.p, scoreYielded[i][2])

\* the query has returned for a point outside the bounds, having yielded
\* the four or more points of a tree with a Node below its root
C15_Witness ==
    /\ scorePc = "done"
    /\ scoreCb.kind = "distance"
    /\ ~InHalfOpen(scoreCb.p, bounds)
    /\ Len(scoreYielded) >= 4
    /\ \E k \in 1..8 : tree.content[k].tag = "Node"

(***************************************************************************)
(* C16: the list of by_distance_from_point_rev(p) is the list of           *)
(* by_distance_from_point(p) in reverse order, triple for triple, ties     *)
(* included.                                                               *)
(***************************************************************************)
Reverse(l) == [i \in 1..Len(l) |-> l[Len(l) + 1 - i]]

IsPrefix(s, t) == Len(s) <= Len(t) /\ s = SubSeq(t, 1, Len(s))

\* the stored coordinates at a squared distance from p below e
StrictBall(t, p, e) == {q \in StoredCoords(t) : SquaredDistance(p, q) < e}

\* l lists the stored points strictly within epsilon once each, as the
\* unbounded list full starts
StrictlyWithin(l, full) ==
    /\ {y[2] : y \in SeqToSet(l)} = StrictBall(tree, qP, qEpsilon)
    /\ Len(l) = Cardinality(StrictBall(tree, qP, qEpsilon))
    /\ IsPrefix(l, full)

NearPointStrict ==
    (qNear.done /\ qFwd.done) => StrictlyWithin(qNear.l, qFwd.l)

\* by_distance_from_point(p, epsilon) yields the points at distance
\* epsilon as well
BoundedQueryClosed ==
    (qBounded.done /\ qFwd.done)
        => /\ {y[2] : y \in SeqToSet(qBounded.l)}
                  = {q \in StoredCoords(tree) :
                        SquaredDistance(qP, q) <= qEpsilon}
           /\ IsPrefix(qBounded.l, qFwd.l)

(***************************************************************************)
(* C18: for a blob tree whose extents have min <= max on each axis and a   *)
(* query box b, intersect_with_box(b) and the tree that                    *)
(* intersection_with_box(b) returns both hold exactly the stored triples   *)
(* whose extent is not boxes_disjoint from b.                              *)
(***************************************************************************)
\* the stored triples of t whose extent is not disjoint from b
Overlapping(t, b) ==
    {x \in SeqToSet(BlobTree_triples(t)) : ~boxes_disjoint(x[2], b)}

C18_IntersectionIsFilter ==
    /\ blobIter.done
          => /\ SeqToSet(blobIter.l) = Overlapping(blobTree, blobBox)
             /\ Len(blobIter.l) = Cardinality(SeqToSet(blobIter.l))
    /\ blobSub.done
          => /\ SeqToSet(BlobTree_triples(blobSub.tree))
                    = Overlapping(blobTree, blobBox)
             /\ Tree_len(blobSub.tree)
                    = Cardinality(Overlapping(blobTree, blobBox))

(***************************************************************************)
(* C19: possible_overlaps(A, B) yields each pair (x, y) of a triple x of A *)
(* and a triple y of B whose extents are not boxes_disjoint exactly once,  *)
(* and no other pair.                                                      *)
(***************************************************************************)
\* how many times z occurs in the list l
Count(l, z) == Cardinality({i \in 1..Len(l) : l[i] = z})

\* the pairs of a triple of a and a triple of b with overlapping extents
OverlappingPairs(a, b) ==
    {z \in SeqToSet(BlobTree_triples(a)) \X SeqToSet(BlobTree_triples(b)) :
        ~boxes_disjoint(z[1][2], z[2][2])}

C19_PossibleOverlapsExact ==
    blobPairs.done
        => /\ SeqToSet(blobPairs.l) = OverlappingPairs(blobTree, blobOther)
           /\ \A i \in 1..Len(blobPairs.l) :
                  Count(blobPairs.l, blobPairs.l[i]) = 1

(***************************************************************************)
(* C20: by_possible_overlap(A, B) yields exactly one group (x, list) for   *)
(* each triple x of A, also when the list is empty, and the groups         *)
(* flattened to pairs (x, y) are the same multiset of pairs as             *)
(* possible_overlaps(A, B) yields.                                         *)
(***************************************************************************)
RECURSIVE Flatten(_)
\* the pairs (x, y) for y in the list of each group (x, list), in order
Flatten(groups) ==
    IF groups = <<>> THEN <<>>
    ELSE LET g == Head(groups)
         IN  [i \in 1..Len(g[2]) |-> <<g[1], g[2][i]>>]
                 \o Flatten(Tail(groups))

\* one group for each stored triple of the tree
OneGroupEach ==
    /\ {g[1] : g \in SeqToSet(blobGroups.l)}
           = SeqToSet(BlobTree_triples(blobTree))
    /\ Len(blobGroups.l) = Tree_len(blobTree)

C20_GroupsMatchPairs ==
    blobGroups.done
        => /\ OneGroupEach
           /\ blobPairs.done
                  => /\ Len(Flatten(blobGroups.l)) = Len(blobPairs.l)
                     /\ \A z \in SeqToSet(blobPairs.l) :
                            Count(Flatten(blobGroups.l), z)
                                = Count(blobPairs.l, z)

\* the first half of C20 on its own: one group for each triple of A
GroupsCoverTree == blobGroups.done => OneGroupEach

\* extents of positive width on every axis
Solid(t) ==
    \A x \in SeqToSet(BlobTree_triples(t)) :
        \A axis \in 1..3 : x[2][axis][1] < x[2][axis][2]

\* the three claims hold of trees whose extents all have positive width
SolidBoxQueriesExact == Solid(blobTree) => C18_IntersectionIsFilter

SolidOverlapsExact ==
    (Solid(blobTree) /\ Solid(blobOther))
        => C19_PossibleOverlapsExact /\ C20_GroupsMatchPairs

(***************************************************************************)
(* C21: after any sequence of BlobOctree insert, update and                *)
(* intersection_with_box calls, the cached extent of every BlobNode is the *)
(* componentwise union (min of mins, max of maxes) of the extents of the   *)
(* blobs stored beneath it, and is None only when none is stored beneath   *)
(* it; an update that shrinks an extent shows in every ancestor.           *)
(***************************************************************************)
\* the smallest box around the extents of the set l
UnionOfExtents(l) ==
    [i \in 1..3 |-> <<SetMin({a[i][1] : a \in l}),
                      SetMax({a[i][2] : a \in l})>>]

RECURSIVE ExtentsCached(_)
ExtentsCached(t) ==
    t.tag = "Node" =>
        /\ LET l == {x[2] : x \in SeqToSet(BlobTree_triples(t))}
           IN  t.cached_extent = (IF l = {} THEN None ELSE UnionOfExtents(l))
        /\ \A k \in 1..8 : ExtentsCached(t.content[k])

C21_CachedExtentIsUnion == ExtentsCached(blobTree)

\* an update of a blob stored under a Node below the root has given it a
\* narrower extent, and the cached extent of the root has shrunk
C21_Witness ==
    /\ blobLast.op = "update"
    /\ blobLast.err = "none"
    /\ blobPrev.tag = "Node"
    /\ blobTree.tag = "Node"
    /\ \E k \in 1..8 :
          /\ blobTree.content[k].tag = "Node"
          /\ blobLast.p \in StoredCoords(blobTree.content[k])
    /\ blobLast.p \in StoredCoords(blobPrev)
    /\ blobTree.cached_extent # blobPrev.cached_extent
    /\ box_contains(blobTree.cached_extent, blobPrev.cached_extent)

(***************************************************************************)
(* C22: trees are persistent.  Once two facades share a tree, whatever     *)
(* insert, update and remove calls are made on the one, the other holds    *)
(* the same root object, of the same length and with the same contents in  *)
(* the same order, as when it was last constructed or called itself.       *)
(***************************************************************************)
C22_OtherFacadeUnchanged ==
    \A g \in Facades :
        /\ shRoot[g] = shSeen[g].ref
        /\ Deref(shObjs, shRoot[g]) = shSeen[g].tree
        /\ Tree_len(Deref(shObjs, shRoot[g])) = Tree_len(shSeen[g].tree)
        /\ Tree_iter(Deref(shObjs, shRoot[g])) = Tree_iter(shSeen[g].tree)

\* the methods on references return what the methods on values return
RefAgreesWithValue ==
    \A f \in Facades, p \in SharePoints, d \in Data :
        LET t == Deref(shObjs, shRoot[f])
            i == Ref_Tree_insert(shObjs, shRoot[f], Bounds0, p, d)
            u == Ref_Tree_update(shObjs, shRoot[f], Bounds0, p, d, TRUE)
            r == Ref_Tree_remove(shObjs, shRoot[f], Bounds0, p)
        IN  /\ i.err = ErrOf(Tree_insert(t, Bounds0, p, d))
            /\ i.err = "none" =>
                   Deref(i.objs, i.ref) = Tree_insert(t, Bounds0, p, d)
            /\ Deref(u.objs, u.ref) = Tree_update(t, Bounds0, p, d, TRUE)
            /\ r.err = ErrOf(Tree_remove(t, Bounds0, p))
            /\ r.err = "none" =>
                   Deref(r.objs, r.ref) = Tree_remove(t, Bounds0, p)

\* no step changes an object that exists: objects are only added
NoObjectModified ==
    [][/\ Len(shObjs') >= Len(shObjs)
       /\ \A i \in 1..Len(shObjs) : shObjs'[i] = shObjs[i]]_vars

\* a call on one facade has changed its tree, three Nodes deep, and the
\* other facade still holds the tree they shared; the two trees have
\* objects in common
C22_Witness ==
    /\ shLast.op \in {"insert", "update", "remove"}
    /\ shLast.err = "none"
    /\ HasDeepChain(shSeen[3 - shLast.f].tree)
    /\ shRoot[1] # shRoot[2]
    /\ shSeen[1].tree # shSeen[2].tree
    /\ Reachable(shObjs, shRoot[1]) \cap Reachable(shObjs, shRoot[2]) # {}

(***************************************************************************)
(* C23: the tree returned by deform keeps the tree invariants for every    *)
(* new box and every point_fn: it has no degenerate Node (no Node of eight *)
(* Empties, no Node holding a single point), and so, for a point_fn that   *)
(* sends the stored points to distinct images, it is equal as a structure  *)
(* to the tree built by inserting the images that fall in the new box.     *)
(***************************************************************************)
\* the entries of t with their points moved by m, those in box b kept, in
\* the order of iteration of t
DeformedItems(t, m, b) ==
    LET moved == [i \in 1..Len(Tree_iter(t)) |->
                     <<matrix_action(m, Tree_iter(t)[i][1]),
                       Tree_iter(t)[i][2]>>]
        In(e) == point_in_box(e[1], b)
    IN  SelectSeq(moved, In)

InjectiveOn(m, t) ==
    \A p, q \in StoredCoords(t) :
        matrix_action(m, p) = matrix_action(m, q) => p = q

C23_DeformKeepsInvariants ==
    dfOut.done =>
        /\ NonDegenerate(dfOut.out)
        /\ InjectiveOn(dfFn, tree) =>
               dfOut.out = InsertAll(Empty, dfNew,
                                     DeformedItems(tree, dfFn, dfNew))

(***************************************************************************)
(* C24: for an injective point_fn and a box_fn that returns a box          *)
(* enclosing the image of every box, deform stores exactly the entries     *)
(* (subset_point_fn(p), payload) of the stored points p whose image lies in the   *)
(* new box: no image in the new box is dropped, and each payload stays     *)
(* with the image of its own point.                                        *)
(***************************************************************************)
Determinant(m) ==
    m[1][1] * (m[2][2] * m[3][3] - m[2][3] * m[3][2])
    - m[1][2] * (m[2][1] * m[3][3] - m[2][3] * m[3][1])
    + m[1][3] * (m[2][1] * m[3][2] - m[2][2] * m[3][1])

\* box_fn encloses the images of the points of Bounds0
BoxFnEncloses(m) ==
    \A p \in ScorePoints :
        point_in_box_closed(matrix_action(m, p),
                            convex_box_deform(m, Bounds0))

C24_DeformStoresImages ==
    (dfOut.done /\ Determinant(dfFn) # 0 /\ BoxFnEncloses(dfFn)) =>
        Entries(dfOut.out) = SeqToSet(DeformedItems(tree, dfFn, dfNew))

(***************************************************************************)
(* C25: subset returns a tree equal as a structure to the tree built from  *)
(* exactly the stored entries whose coordinates satisfy point_fn, whenever *)
(* box_fn answers true only for boxes all of whose stored points satisfy   *)
(* point_fn and false only for boxes none of whose stored points do; with  *)
(* a box_fn that never answers it is a plain filter by point_fn.           *)
(***************************************************************************)
\* box_fn is right about box b whenever it answers
BoxFnSound(cb, b) ==
    LET inside == {p \in cb.stored : point_in_box(p, b)}
    IN  /\ subset_box_fn(cb, b) = "True" => \A p \in inside : subset_point_fn(cb, p)
        /\ subset_box_fn(cb, b) = "False" => \A p \in inside : ~subset_point_fn(cb, p)

\* the boxes of the Nodes of t, a tree over b
RECURSIVE NodeBoxes(_, _)
NodeBoxes(t, b) ==
    IF t.tag # "Node" THEN {}
    ELSE {b} \cup UNION {NodeBoxes(t.content[k], subboxes(b)[k]) : k \in 1..8}

\* the entries of t that satisfy point_fn, in the order of iteration
FilteredItems(t, cb) ==
    LET Keep(e) == subset_point_fn(cb, e[1])
    IN  SelectSeq(Tree_iter(t), Keep)

C25_SubsetIsFilter ==
    (subOut.done /\ \A b \in NodeBoxes(tree, bounds) : BoxFnSound(subFn, b))
        => /\ subOut.out = InsertAll(Empty, bounds, FilteredItems(tree, subFn))
           /\ Entries(subOut.out)
                  = {e \in Entries(tree) : subset_point_fn(subFn, e[1])}

\* box_fn is sound, unknown for the root Node and false for a Node under
\* it, and the filter has left a single point of a tree of three or more
C25_Witness ==
    /\ subOut.done
    /\ \A b \in NodeBoxes(tree, bounds) : BoxFnSound(subFn, b)
    /\ subset_box_fn(subFn, bounds) = "None"
    /\ \E b \in NodeBoxes(tree, bounds) : subset_box_fn(subFn, b) = "False"
    /\ subOut.out.tag = "Singleton"
    /\ Tree_len(tree) >= 3

(***************************************************************************)
(* C26, as stated: Node.rebound takes its first branch (a Node of the      *)
(* eight rebounds of the whole old tree into the subboxes of the new box)  *)
(* exactly when the new box is contained in the old one.                   *)
(***************************************************************************)
C26_FirstBranchWhenNewInOld ==
    (rebDone /\ tree.tag = "Node") =>
        (Node_rebound_branch(bounds, rebBounds) = "subboxes"
            <=> box_contains(rebBounds, bounds))

(***************************************************************************)
(* C26, amended: Node.rebound takes its first branch, and returns the Node *)
(* of the eight rebounds of the whole old tree into the subboxes of the    *)
(* new box, exactly when the old box is contained in the new one; it       *)
(* returns Empty when the old box is not contained and the two boxes are   *)
(* disjoint; otherwise it rebounds each old child against the new box and  *)
(* folds the results with union.                                           *)
(***************************************************************************)
C26_FirstBranchWhenOldInNew ==
    (rebDone /\ tree.tag = "Node") =>
        LET branch == Node_rebound_branch(bounds, rebBounds)
            parts == [k \in 1..8 |->
                         Tree_rebound(tree.content[k], subboxes(bounds)[k],
                                      rebBounds)]
        IN  /\ branch = "subboxes" <=> box_contains(bounds, rebBounds)
            /\ branch = "empty" <=>
                   (~box_contains(bounds, rebBounds)
                    /\ boxes_disjoint(bounds, rebBounds))
            /\ branch = "subboxes" =>
                   rebTree = Node([k \in 1..8 |->
                                      Tree_rebound(tree, bounds,
                                                   subboxes(rebBounds)[k])])
            /\ branch = "empty" => rebTree = Empty
            /\ branch = "union" =>
                   rebTree = reduce_union(parts[1], parts, 2, rebBounds)

\* a Node rebound to a strictly larger box has come back as a Node of
\* eight parts that hold its points
C26_Witness ==
    /\ rebDone
    /\ tree.tag = "Node"
    /\ bounds # rebBounds
    /\ box_contains(bounds, rebBounds)
    /\ ~box_contains(rebBounds, bounds)
    /\ rebTree.tag = "Node"
    /\ Tree_len(rebTree) = Tree_len(tree)
    /\ Tree_len(tree) >= 3

(***************************************************************************)
(* C27: within one call a.union(b, bounds) with swapped=False every        *)
(* coordinate stored in both trees keeps the payload of the same argument, *)
(* whatever mix of Empty, Singleton and Node subtrees the recursion meets  *)
(* at the colliding coordinates: the winner does not change from one       *)
(* collision to another.                                                   *)
(***************************************************************************)
CommonCoords == StoredCoords(tree) \cap StoredCoords(otherTree)

C27_UnionWinnerConsistent ==
    (unionDone /\ unionErr = "none") =>
        \/ \A p \in CommonCoords :
               Tree_get(unionTree, bounds, p, NoData)
                   = Tree_get(tree, bounds, p, NoData)
        \/ \A p \in CommonCoords :
               Tree_get(unionTree, bounds, p, NoData)
                   = Tree_get(otherTree, bounds, p, NoData)

\* the union of two Nodes with different payloads has met, at colliding
\* coordinates, a Singleton of the first against a Node of the second in
\* one octant and a Node of the first against a Singleton of the second in
\* another
C27_Witness ==
    /\ unionDone /\ unionErr = "none"
    /\ tree.tag = "Node" /\ otherTree.tag = "Node"
    /\ \A p \in CommonCoords :
          Tree_get(tree, bounds, p, NoData)
              # Tree_get(otherTree, bounds, p, NoData)
    /\ \E j, k \in 1..8 :
          /\ tree.content[j].tag = "Singleton"
          /\ otherTree.content[j].tag = "Node"
          /\ tree.content[j].coords \in StoredCoords(otherTree.content[j])
          /\ tree.content[k].tag = "Node"
          /\ otherTree.content[k].tag = "Singleton"
          /\ otherTree.content[k].coords \in StoredCoords(tree.content[k])

(***************************************************************************)
(* C28: line_intersects_box(a, v, b) and halfline_intersects_box(a, v, b)  *)
(* are total: each returns a boolean, without raising, for every origin a, *)
(* every direction v (also when some or all of its components are zero)   *)
(* and every box b.                                                        *)
(***************************************************************************)
C28_IntersectsBoxTotal ==
    /\ liLine.done => liLine.out \in {"True", "False"}
    /\ liHalf.done => liHalf.out \in {"True", "False"}

\* the two predicates return a boolean for every direction that is not the
\* zero vector, and for the zero vector when the origin is outside the box
InSpan(x, e) == (e[1] <= x /\ x <= e[2]) \/ (e[2] <= x /\ x <= e[1])

IntersectsBoxTotalOffZero ==
    (liV # <<0, 0, 0>> \/ \E i \in 1..3 : ~InSpan(liA[i], liB[i]))
        => C28_IntersectsBoxTotal

(***************************************************************************)
(* C29: for every box b with min < max on each axis and every point p,     *)
(* narrow(b, p) returns (n, sb) with n = 4*[x >= midx] + 2*[y >= midy]     *)
(* + [z >= midz] and sb the n-th box that subboxes(b) yields; and when p   *)
(* is in b (half-open), p is in sb and in none of the other seven          *)
(* subboxes.                                                               *)
(***************************************************************************)
Bit(x) == IF x THEN 1 ELSE 0

C29_NarrowAgreesWithSubboxes ==
    nrOut.done =>
        LET n == nrOut.out[1]
            sb == nrOut.out[2]
            mid == centroid(nrB)
        IN  /\ n = 4 * Bit(nrP[1] >= mid[1]) + 2 * Bit(nrP[2] >= mid[2])
                    + Bit(nrP[3] >= mid[3])
            /\ sb = subboxes(nrB)[n + 1]
            /\ point_in_box(nrP, nrB) =>
                   /\ point_in_box(nrP, sb)
                   /\ \A k \in 1..8 :
                          k # n + 1 => ~point_in_box(nrP, subboxes(nrB)[k])

\* narrow has put a point of the box that lies on the middle plane of x,
\* below the middle of y and above the middle of z in subbox 5
C29_Witness ==
    /\ nrOut.done
    /\ point_in_box(nrP, nrB)
    /\ nrP[1] = centroid(nrB)[1]
    /\ nrP[2] < centroid(nrB)[2]
    /\ nrP[3] > centroid(nrB)[3]
    /\ nrOut.out[1] = 5
    /\ nrB[2][2] - nrB[2][1] # nrB[1][2] - nrB[1][1]

(***************************************************************************)
(* C30: for every finite tree and every pair of scoring callbacks the loop *)
(* of by_score, driven to exhaustion, terminates: each Node of the tree is *)
(* pushed and expanded at most once, each stored point is pushed and       *)
(* yielded at most once, and the heap is empty in the end.                 *)
(***************************************************************************)
\* no entry pushed or popped twice, none popped that was not pushed, one
\* entry at most for a Node (known by its box) and for a point, and no
\* point yielded twice
ScoreAtMostOnce ==
    /\ \A e \in DOMAIN scorePushed : scorePushed[e] <= 1
    /\ \A e \in DOMAIN scorePopped :
          scorePopped[e] <= 1 /\ e \in DOMAIN scorePushed
    /\ \A e, f \in DOMAIN scorePushed :
          (e.isnode = f.isnode /\ e.location = f.location) => e = f
    /\ \A i, j \in 1..Len(scoreYielded) :
          scoreYielded[i][2] = scoreYielded[j][2] => i = j

C30_ByScoreTerminates ==
    /\ []ScoreAtMostOnce
    /\ <>[](scorePc = "done" /\ scoreHeap = <<>>)

\* the generator has returned after expanding the root Node and a Node
\* under it and yielding every point of a tree of four or more
C30_Witness ==
    /\ scorePc = "done"
    /\ scoreHeap = <<>>
    /\ \E e, f \in DOMAIN scorePopped :
          e.isnode /\ f.isnode /\ e.location # f.location
    /\ Len(scoreYielded) = Tree_len(tree)
    /\ Tree_len(tree) >= 4
====
